---- MODULE Spec2Model ----
(***************************************************************************)
(* Model of the sprite-sheet grid detector (src/core/detector.py).         *)
(*                                                                         *)
(* Numbers.  Python computes with IEEE doubles; the model computes with    *)
(* exact integers and rationals [n |-> numerator, d |-> denominator > 0].  *)
(* A projection sample row_sum / width is kept as its numerator row_sum    *)
(* together with the common divisor n, so a projection is the record       *)
(* [sum |-> <<row_sum, ...>>, n |-> width].  Positions are 0-based as in   *)
(* the source; TLA+ sequences are 1-based, so sample i is sum[i + 1].      *)
(***************************************************************************)
EXTENDS Integers, Sequences, FiniteSets, TLC

VARIABLES
    image_input,            \* the caller's image source (argument of analyze_spritesheet)
    detection_mode,         \* the mode argument
    pc,                     \* position inside analyze_spritesheet
    original_size,          \* <<width, height>> before downscaling
    scale_factor,           \* rational 1 / ratio
    horizontal_projection,  \* per-row mean luminance of img_gray
    vertical_projection,    \* per-column mean luminance of img_gray
    best_result,            \* the hypothesis held so far, or None
    best_confidence,        \* its confidence
    ret,                    \* what the call returned or raised
    memo,                   \* one earlier completed call, kept for comparison
    fn,                     \* pure-function harness: the function applied
    args,                   \* pure-function harness: its arguments
    out,                    \* pure-function harness: its result
    coupon_table,           \* web/coupons.py: the stored coupon rows, by id
    coupon_calls,           \* the consume_coupon / refund_coupon_usage calls in flight
    frames_folder,          \* the frames folder of the command-line tools: name -> frame
    cli,                    \* the command-line run: its position, what it wrote, its GIF
    data_folder,            \* web/app.py: the files under DATA_FOLDER
    requests                \* the HTTP requests in flight and their responses

vars == <<image_input, detection_mode, pc, original_size, scale_factor,
          horizontal_projection, vertical_projection, best_result,
          best_confidence, ret, memo, fn, args, out,
          coupon_table, coupon_calls, frames_folder, cli, data_folder, requests>>

analysis_vars == <<image_input, detection_mode, pc, original_size, scale_factor,
                   horizontal_projection, vertical_projection, best_result,
                   best_confidence, ret, memo>>

harness_vars == <<fn, args, out>>

coupon_vars == <<coupon_table, coupon_calls>>
cli_vars == <<frames_folder, cli>>
app_vars == <<data_folder, requests>>
service_vars == <<coupon_vars, cli_vars, app_vars>>

\* nothing is stored and nothing runs outside the detector
CouponsIdle == coupon_table = <<>> /\ coupon_calls = <<>>
CliIdle == frames_folder = <<>> /\ cli = <<>>
AppIdle == data_folder = <<>> /\ requests = <<>>
ServiceIdle == CouponsIdle /\ CliIdle /\ AppIdle

-----------------------------------------------------------------------------
(* Bounds of the model.                                                    *)

\* exhaustively enumerated images have sides 0..MaxSide
MaxSide == 3
\* projections handed directly to the detectors have 1..MaxLen samples
MaxLen == 4
\* min_line_width ranges over 1..MaxLineWidth in the detector harness
MaxLineWidth == 2
\* raw intervals handed directly to the periodicity filter lie in 0..MaxPos
MaxPos == 9
\* raw edges handed directly to the periodicity filter lie in 0..MaxEdgePos,
\* at most MaxEdges of them
MaxEdgePos == 14
MaxEdges == 4
\* intervals handed directly to the confidence scorer lie in 0..MaxConfPos
MaxConfPos == 7

-----------------------------------------------------------------------------
(* Generic helpers.                                                        *)

Only(S) == CHOOSE s \in S : TRUE

\* A Python `for i in range(lo, hi)` loop threading the loop state st
\* through body(st, i) in increasing order of i.  The range is split in
\* halves only to keep the evaluation depth logarithmic; the left half is
\* completed before the right half starts, as in the sequential loop.
RECURSIVE ForRange(_, _, _, _)
ForRange(body(_, _), st, lo, hi) ==
    IF lo >= hi THEN st
    ELSE IF hi = lo + 1 THEN body(st, lo)
    ELSE LET mid == (lo + hi) \div 2
         IN Only({ForRange(body, left, mid, hi) :
                     left \in {ForRange(body, st, lo, mid)}})

SumSeq(s) ==
    LET add(acc, i) == acc + s[i + 1]
    IN ForRange(add, 0, 0, Len(s))

Abs(x) == IF x < 0 THEN -x ELSE x
Max(a, b) == IF a >= b THEN a ELSE b
Min(a, b) == IF a <= b THEN a ELSE b

Rat(n, d) == [n |-> n, d |-> d]

\* a/b <= c/d for a, c >= 0 and b, d > 0, by comparing continued
\* fractions, so that no product is formed (TLC integers are 32 bit).
RECURSIVE RatLE(_, _, _, _)
RatLE(a, b, c, d) ==
    LET qa == a \div b
        qc == c \div d
        ra == a % b
        rc == c % d
    IN IF qa # qc THEN qa < qc
       ELSE IF ra = 0 THEN TRUE
       ELSE IF rc = 0 THEN FALSE
       ELSE RatLE(d, rc, b, ra)

\* list.sort() / sorted() on a short list of integers (insertion sort, stable)
RECURSIVE InsertSorted(_, _)
InsertSorted(s, x) ==
    IF s = <<>> THEN <<x>>
    ELSE IF x < Head(s) THEN <<x>> \o s
    ELSE <<Head(s)>> \o InsertSorted(Tail(s), x)

SortInts(s) ==
    LET ins(acc, i) == InsertSorted(acc, s[i + 1])
    IN ForRange(ins, <<>>, 0, Len(s))

-----------------------------------------------------------------------------
(* detect_grid_lines                                                       *)

\* variant: a sample equal to the threshold counts as in-line
at_threshold(projection, total, threshold_ratio, detect_dark, val) ==
    IF detect_dark
    THEN val * Len(projection.sum) * threshold_ratio.d <= total * threshold_ratio.n
    ELSE val * Len(projection.sum) * threshold_ratio.d >=
           total * threshold_ratio.d
             + (255 * projection.n * Len(projection.sum) - total)
                 * (threshold_ratio.d - threshold_ratio.n)

\* is_line(val) of the source, with avg = total / (n * len):
\*   dark : val/n < avg * t
\*   light: val/n > avg + (255 - avg) * (1 - t)
\* both multiplied through by n * len * t.d > 0.
is_line(projection, total, threshold_ratio, detect_dark, val) ==
    LET len == Len(projection.sum)
        tn  == threshold_ratio.n
        td  == threshold_ratio.d
    IN IF detect_dark
       THEN val * len * td < total * tn
       ELSE val * len * td >
              total * td + (255 * projection.n * len - total) * (td - tn)

\* variant: a run is kept only when it is longer than min_line_width
scan_step_longer(st, i, line, min_line_width) ==
    IF line /\ ~st.in_line
    THEN [st EXCEPT !.start = i, !.in_line = TRUE]
    ELSE IF ~line /\ st.in_line
    THEN [st EXCEPT !.in_line = FALSE,
                    !.lines = IF i - st.start > min_line_width
                              THEN Append(@, <<st.start, i>>) ELSE @]
    ELSE st

\* the body of the scan loop, lines 45-52, at sample i, where line is
\* is_line(val) of that sample
scan_step(st, i, line, min_line_width) ==
    IF line /\ ~st.in_line
    THEN [st EXCEPT !.start = i, !.in_line = TRUE]
    ELSE IF ~line /\ st.in_line
    THEN [st EXCEPT !.in_line = FALSE,
                    !.lines = IF i - st.start >= min_line_width
                              THEN Append(@, <<st.start, i>>) ELSE @]
    ELSE st

\* variant: closes a run at the end of the projection whether or not one is open
close_always(st, len, min_line_width) == Append(st.lines, <<st.start, len>>)

\* lines 54-57: a run that reaches the end of the projection
close_run(st, len, min_line_width) ==
    IF st.in_line /\ len - st.start >= min_line_width
    THEN Append(st.lines, <<st.start, len>>)
    ELSE st.lines

\* defined for a non-empty projection (mean() raises StatisticsError on [])
detect_grid_lines(projection, threshold_ratio, min_line_width, detect_dark) ==
    LET total == SumSeq(projection.sum)
        body(st, i) ==
            scan_step(st, i,
                      is_line(projection, total, threshold_ratio, detect_dark,
                              projection.sum[i + 1]),
                      min_line_width)
    IN close_run(ForRange(body, [lines |-> <<>>, in_line |-> FALSE, start |-> 0],
                          0, Len(projection.sum)),
                 Len(projection.sum), min_line_width)

-----------------------------------------------------------------------------
(* detect_edges                                                            *)

\* gradients[i] = abs(projection[i+1] - projection[i]), lines 72-74;
\* the sample difference is kept as the difference of the numerators
gradient(projection, i) == Abs(projection.sum[i + 2] - projection.sum[i + 1])

\* variant: an edge must be more than min_gap past the last accepted one
edge_step_wider(projection, min_edge_strength, min_gap, edges, i) ==
    IF gradient(projection, i) >= min_edge_strength * projection.n
    THEN IF edges = <<>> \/ i - edges[Len(edges)] > min_gap
         THEN Append(edges, i)
         ELSE edges
    ELSE edges

\* the body of the loop of lines 78-82; grad >= min_edge_strength is
\* |sum difference| / n >= min_edge_strength
edge_step(projection, min_edge_strength, min_gap, edges, i) ==
    IF gradient(projection, i) >= min_edge_strength * projection.n
    THEN IF edges = <<>> \/ i - edges[Len(edges)] >= min_gap
         THEN Append(edges, i)
         ELSE edges
    ELSE edges

detect_edges(projection, min_edge_strength, min_gap) ==
    LET body(edges, i) == edge_step(projection, min_edge_strength, min_gap, edges, i)
    IN ForRange(body, <<>>, 0, Len(projection.sum) - 1)

-----------------------------------------------------------------------------
(* find_periodic_lines, find_periodic_edges                                *)

\* twice the center (s + e) / 2 of an interval, so that it stays an integer
center2(line) == line[1] + line[2]

\* gaps between consecutive elements of a sequence of numbers
Gaps(c) == [i \in 1..(Len(c) - 1) |-> c[i + 1] - c[i]]

centers2(lines) == [i \in 1..Len(lines) |-> center2(lines[i])]

\* twice statistics.median of a non-empty list of integers
middle2(srt, n) ==
    IF n % 2 = 1 THEN 2 * srt[(n + 1) \div 2]
    ELSE srt[n \div 2] + srt[n \div 2 + 1]

median2(g) == middle2(SortInts(g), Len(g))

\* (1 - tolerance) * period <= gap <= (1 + tolerance) * period, where
\* gap = gapnum / gapden and period = pernum / perden
within_tolerance(tolerance, gapnum, gapden, pernum, perden) ==
    /\ (tolerance.d - tolerance.n) * pernum * gapden <= tolerance.d * gapnum * perden
    /\ tolerance.d * gapnum * perden <= (tolerance.d + tolerance.n) * pernum * gapden

\* variant: the first interval is not kept
drop_first_line(lines, c2, med4, tolerance) == Tail(lines)

\* the loop of lines 102-109; c2 are the doubled centers and med4 / 4 is
\* median_gap
filter_lines(lines, c2, med4, tolerance) ==
    LET keep(acc, i) ==
            IF i = 0 THEN Append(acc, lines[1])
            ELSE IF within_tolerance(tolerance, c2[i + 1] - c2[i], 2, med4, 4)
                 THEN Append(acc, lines[i + 1])
                 ELSE acc
    IN ForRange(keep, <<>>, 0, Len(lines))

\* variant: two cells more than there are kept intervals
lines_and_two_more(filtered_lines) ==
    [lines |-> filtered_lines, cells |-> Len(filtered_lines) + 2]

\* lines 111-112
lines_and_cells(filtered_lines) ==
    [lines |-> filtered_lines, cells |-> Len(filtered_lines) + 1]

\* returns [lines |-> filtered_lines, cells |-> num_cells]
find_periodic_lines(lines, total_size, tolerance) ==
    IF Len(lines) < 2 THEN [lines |-> lines, cells |-> Len(lines) + 1]
    ELSE lines_and_cells(filter_lines(lines, centers2(lines),
                                      median2(Gaps(centers2(lines))), tolerance))

\* round(g / 5) * 5 for an integer g >= 0 (g / 5 is never halfway)
round5(g) == ((g + 2) \div 5) * 5

\* variant: among the values with the highest count, the last one inserted
most_common_last(s) ==
    LET count(v) == Cardinality({i \in 1..Len(s) : s[i] = v})
        best == CHOOSE i \in 1..Len(s) :
                    /\ \A j \in (i + 1)..Len(s) : s[j] # s[i]
                    /\ \A j \in 1..Len(s) :
                         \/ count(s[j]) < count(s[i])
                         \/ s[j] = s[i]
                         \/ count(s[j]) = count(s[i]) /\ j < i
    IN s[best]

\* Counter(...).most_common(1)[0][0]: the value with the highest count,
\* the first one inserted among equals
most_common(s) ==
    LET count(v) == Cardinality({i \in 1..Len(s) : s[i] = v})
        first(v) == CHOOSE i \in 1..Len(s) : s[i] = v /\ \A j \in 1..(i - 1) : s[j] # v
        best == CHOOSE i \in 1..Len(s) :
                    /\ first(s[i]) = i
                    /\ \A j \in 1..Len(s) :
                         \/ count(s[j]) < count(s[i])
                         \/ count(s[j]) = count(s[i]) /\ first(s[j]) >= i
    IN s[best]

\* gap_rounded of line 128
gap_rounded(gaps) == [i \in 1..Len(gaps) |-> round5(gaps[i])]

\* the loop of lines 133-137
filter_edges(edges, most_common_gap, tolerance) ==
    LET keep(acc, i) ==
            IF within_tolerance(tolerance, edges[i + 1] - acc[Len(acc)], 1,
                                most_common_gap, 1)
            THEN Append(acc, edges[i + 1])
            ELSE acc
    IN ForRange(keep, <<edges[1]>>, 1, Len(edges))

\* variant: one cell more than there are kept edges
edges_and_one_more(filtered_edges) ==
    [edges |-> filtered_edges, cells |-> Len(filtered_edges) + 1]

\* lines 139-140
edges_and_cells(filtered_edges) ==
    [edges |-> filtered_edges, cells |-> Len(filtered_edges)]

\* returns [edges |-> filtered_edges, cells |-> num_cells]
find_periodic_edges(edges, total_size, tolerance) ==
    IF Len(edges) < 3 THEN [edges |-> edges, cells |-> Len(edges) + 1]
    ELSE edges_and_cells(filter_edges(edges, most_common(gap_rounded(Gaps(edges))),
                                      tolerance))

-----------------------------------------------------------------------------
(* guess_grid_from_size                                                    *)

common_grids ==
    << <<2, 2>>, <<3, 3>>, <<4, 4>>, <<5, 5>>, <<6, 6>>, <<7, 7>>, <<8, 8>>,
       <<2, 4>>, <<4, 2>>, <<3, 4>>, <<4, 3>>, <<4, 6>>, <<6, 4>>,
       <<4, 8>>, <<8, 4>>, <<3, 6>>, <<6, 3>>, <<5, 10>>, <<10, 5>>,
       <<2, 8>>, <<8, 2>>, <<3, 9>>, <<9, 3>>, <<4, 12>>, <<12, 4>> >>

\* 0.5 <= ratio <= 2.0 with ratio = (width / cols) / (height / rows) when
\* cell_h > 0 and 0 otherwise; a zero width gives ratio 0 as well
aspect_ok(width, height, rows, cols) ==
    /\ height > 0
    /\ height * cols <= 2 * width * rows
    /\ width * rows <= 2 * height * cols

\* score = 1.0 - (w_remainder / width + h_remainder / height) / 2
size_score(width, height, rows, cols) ==
    Rat(2 * width * height - (width % cols) * height - (height % rows) * width,
        2 * width * height)

\* x > y for rationals x, y >= 0
RatGT(x, y) == ~RatLE(x.n, x.d, y.n, y.d)

\* variant: a descending sort that puts a later entry before its equals
RECURSIVE InsertBeforeTies(_, _)
InsertBeforeTies(s, x) ==
    IF s = <<>> THEN <<x>>
    ELSE IF ~RatGT(Head(s).score, x.score) THEN <<x>> \o s
    ELSE <<Head(s)>> \o InsertBeforeTies(Tail(s), x)

\* candidates.sort(key=score, reverse=True): stable, descending
RECURSIVE InsertByScore(_, _)
InsertByScore(s, x) ==
    IF s = <<>> THEN <<x>>
    ELSE IF RatGT(x.score, Head(s).score) THEN <<x>> \o s
    ELSE <<Head(s)>> \o InsertByScore(Tail(s), x)

Take(s, k) == SubSeq(s, 1, Min(k, Len(s)))

TopCandidates == 5

\* variant: every catalog entry becomes a candidate
add_unfiltered(acc, width, height, rows, cols) ==
    Append(acc, [rows |-> rows, cols |-> cols,
                 score |-> size_score(width, height, rows, cols)])

\* the body of the loop of lines 158-169 for one catalog entry
add_candidate(acc, width, height, rows, cols) ==
    IF aspect_ok(width, height, rows, cols)
    THEN Append(acc, [rows |-> rows, cols |-> cols,
                      score |-> size_score(width, height, rows, cols)])
    ELSE acc

\* line 172
sort_candidates(candidates) ==
    LET ins(acc, i) == InsertByScore(acc, candidates[i + 1])
    IN ForRange(ins, <<>>, 0, Len(candidates))

guess_grid_from_size(width, height) ==
    LET add(acc, i) ==
            add_candidate(acc, width, height,
                          common_grids[i + 1][1], common_grids[i + 1][2])
    IN Take(sort_candidates(ForRange(add, <<>>, 0, Len(common_grids))),
            TopCandidates)

-----------------------------------------------------------------------------
(* calculate_confidence                                                    *)
(*                                                                         *)
(* The value before rounding is penalty * factor_h * factor_v, where a     *)
(* factor max(0.5, 1 - stdev(gaps) / mean(gaps)) is in general irrational. *)
(* Each factor is enclosed between two multiples of 1 / Scale and the      *)
(* product is rounded at both ends; ConfidenceExact below states that the  *)
(* two ends round to the same hundredth, so the hundredth is the exact one.*)

\* resolution of the enclosure of a regularity factor
Scale == 100 * 100

\* (stdev(gaps) / mean(gaps))^2 = n (n Q - S^2) / ((n - 1) S^2) as the
\* rational num / den, for n >= 2 gaps with sum S > 0 and sum of squares Q;
\* mean(gaps) <= 0 gives the source's h_std = 1.  Doubling every gap (the
\* centers are kept doubled) leaves the quotient unchanged.
cv_squared_of(n, S, Q) ==
    IF S <= 0 THEN Rat(1, 1)
    ELSE Rat(n * (n * Q - S * S), (n - 1) * S * S)

cv_squared(gaps) ==
    cv_squared_of(Len(gaps), SumSeq(gaps),
                  SumSeq([i \in 1..Len(gaps) |-> gaps[i] * gaps[i]]))

\* the largest m in lo..hi with (m / Scale)^2 <= q, given that lo is one
RECURSIVE sqrt_floor(_, _, _)
sqrt_floor(q, lo, hi) ==
    IF lo = hi THEN lo
    ELSE LET mid == (lo + hi + 1) \div 2
         IN IF RatLE(mid * mid, Scale * Scale, q.n, q.d)
            THEN sqrt_floor(q, mid, hi)
            ELSE sqrt_floor(q, lo, mid - 1)

\* bounds [lo, hi], in units of 1 / Scale, of the factor that lines 188-196
\* (198-206) multiply into the confidence; Scale when the step is skipped
\* 1 - cv enclosed, given m = floor(cv * Scale) and cv^2 = q
one_minus_root(q, m) ==
    [lo |-> Scale - (IF RatLE(q.n, q.d, m * m, Scale * Scale) THEN m ELSE m + 1),
     hi |-> Scale - m]

\* variant: the factor grows with the coefficient of variation
inverted_factor(q) ==
    IF 4 * q.n >= q.d
    THEN [lo |-> Scale, hi |-> Scale]
    ELSE [lo |-> Scale \div 2 + sqrt_floor(q, 0, Scale \div 2),
          hi |-> Scale \div 2 + sqrt_floor(q, 0, Scale \div 2)]

\* max(0.5, 1 - cv) for cv^2 = q
factor_of_cv2(q) ==
    IF 4 * q.n >= q.d                     \* cv >= 0.5
    THEN [lo |-> Scale \div 2, hi |-> Scale \div 2]
    ELSE one_minus_root(q, sqrt_floor(q, 0, Scale \div 2))

\* variant: a single gap is taken for an irregular axis
single_gap_floor(lines) ==
    IF Len(lines) < 2 THEN [lo |-> Scale, hi |-> Scale]
    ELSE IF Len(lines) - 1 <= 1 THEN [lo |-> Scale \div 2, hi |-> Scale \div 2]
    ELSE factor_of_cv2(cv_squared(Gaps(centers2(lines))))

regularity_factor(lines) ==
    IF Len(lines) < 2 THEN [lo |-> Scale, hi |-> Scale]
    ELSE IF Len(lines) - 1 <= 1 THEN [lo |-> Scale, hi |-> Scale]
    ELSE factor_of_cv2(cv_squared(Gaps(centers2(lines))))

\* 0.7 for each axis with fewer lines than expected, lines 183-186:
\* the number of factors 0.7
completeness_penalties(h_lines, v_lines, rows, cols) ==
    (IF Len(h_lines) < rows - 1 THEN 1 ELSE 0)
  + (IF Len(v_lines) < cols - 1 THEN 1 ELSE 0)

Pow(b, e) == IF e = 0 THEN 1 ELSE IF e = 1 THEN b ELSE b * b

\* round(0.7^j * x / Scale^2, 2) in hundredths, for 0 <= x <= Scale^2,
\* ties to the even hundredth; x is split as u * Scale + v to stay in 32 bits
half_even(k, tie) == [k |-> IF tie /\ k % 2 = 1 THEN k - 1 ELSE k, tie |-> tie]

round_split(c, h, u, v) ==
    half_even((c * u + h + (c * v) \div Scale) \div (2 * h),
              (c * u + h + (c * v) \div Scale) % (2 * h) = 0 /\ (c * v) % Scale = 0)

\* With a penalty the double is 0.7 (or 0.7 * 0.7) times the factors, and the
\* doubles 0.7 and 0.7 * 0.7 lie below 0.7 and 0.49: a product that is
\* exactly halfway between two hundredths is a double below the halfway
\* point, and round() takes it down (0.7 * 0.5 * 0.5 gives 0.17).
below_tie(k, tie) == [k |-> IF tie THEN k - 1 ELSE k, tie |-> tie]

round_split_penalised(c, h, u, v) ==
    below_tie((c * u + h + (c * v) \div Scale) \div (2 * h),
              (c * u + h + (c * v) \div Scale) % (2 * h) = 0 /\ (c * v) % Scale = 0)

round_hundredths(x, j) ==
    IF j = 0
    THEN round_split(2, 100, x \div Scale, x % Scale)
    ELSE round_split_penalised(2 * Pow(7, j), 100 * Pow(10, j),
                               x \div Scale, x % Scale)

rounded_bounds(lo, hi, point) ==
    [lo |-> lo.k, hi |-> hi.k, tie |-> lo.tie \/ hi.tie, point |-> point]

product_bounds(j, fh, fv) ==
    rounded_bounds(round_hundredths(fh.lo * fv.lo, j),
                   round_hundredths(fh.hi * fv.hi, j),
                   fh.lo = fh.hi /\ fv.lo = fv.hi)

confidence_bounds(h_lines, v_lines, rows, cols) ==
    product_bounds(completeness_penalties(h_lines, v_lines, rows, cols),
                   regularity_factor(h_lines), regularity_factor(v_lines))

\* the returned float, in hundredths (0..100)
calculate_confidence(h_lines, v_lines, rows, cols, height, width) ==
    confidence_bounds(h_lines, v_lines, rows, cols).lo

\* the enclosure decides the hundredth
bounds_decide(b) == b.lo = b.hi /\ (b.tie => b.point)

confidence_is_exact(h_lines, v_lines, rows, cols) ==
    bounds_decide(confidence_bounds(h_lines, v_lines, rows, cols))

-----------------------------------------------------------------------------
(* Images.                                                                 *)
(*                                                                         *)
(* An image source is [decodable, width, height, rowmark, colmark, line,   *)
(* cell]: width and height are those of the decoded image, and the other   *)
(* fields give the luminance of img_gray, the image the projections are    *)
(* taken from (after PIL's resize and convert('L')): the pixel at (x, y)   *)
(* has value line when row y or column x carries a separator and value     *)
(* cell otherwise.                                                         *)

Pixel(im, x, y) ==
    IF y \in im.rowmark \/ x \in im.colmark THEN im.line ELSE im.cell

Image(w, h, R, C, line, cell) ==
    [decodable |-> TRUE, width |-> w, height |-> h,
     rowmark |-> R, colmark |-> C, line |-> line, cell |-> cell]

\* a source Image.open cannot decode
Undecodable ==
    [decodable |-> FALSE, width |-> 0, height |-> 0,
     rowmark |-> {}, colmark |-> {}, line |-> 0, cell |-> 0]

\* <<line, cell>> luminances: dark separators, light separators, low contrast
Palette == { <<0, 255>>, <<255, 0>>, <<150, 200>> }

SmallImages ==
    { Image(w, h, R, C, p[1], p[2]) :
        <<w, h, R, C, p>> \in
          { t \in (0..MaxSide) \X (0..MaxSide) \X (SUBSET (0..(MaxSide - 1)))
                  \X (SUBSET (0..(MaxSide - 1))) \X Palette :
              /\ t[3] \subseteq 0..(t[2] - 1)
              /\ t[4] \subseteq 0..(t[1] - 1) } }

Modes == {"auto", "dark_lines", "light_lines", "edges", "guess"}

\* variant: a strategy that every mode runs
every_mode == Modes

\* the modes under which each strategy block runs (lines 271, 292, 313, 338)
dark_modes == {"auto", "dark_lines"}
light_modes == {"auto", "light_lines"}
edge_modes == {"auto", "edges"}
guess_modes == {"auto", "guess"}

-----------------------------------------------------------------------------
(* analyze_spritesheet                                                     *)

max_size == 1000

NoneResult ==
    [h_lines |-> <<>>, v_lines |-> <<>>, rows |-> 0, cols |-> 0, method |-> "None"]

\* A confidence is the rational n / d; up = 1 marks a double that lies one
\* rounding step above n / d (see edge_confidence).
Conf(n, d, up) == [n |-> n, d |-> d, up |-> up]

ZeroConf == Conf(0, 1, 0)

\* a > b on confidences
conf_gt(a, b) ==
    \/ a.n * b.d > b.n * a.d
    \/ a.n * b.d = b.n * a.d /\ a.up > b.up

\* variant: every confidence counts as low
any_confidence(c) == TRUE

\* c < 0.5
conf_lt_half(c) == 2 * c.n < c.d

\* the larger sides m in 1001..1200 for which the double m * (1000 / m) lies
\* below 1000, so that int() gives 999; for the larger sides 1250, 2000 and
\* 2001 the product is 1000
cap_falls_short == {1062, 1108, 1128, 1132, 1148, 1160, 1164, 1171, 1176, 1187}

\* int(x * ratio) for a side x of an image whose larger side is m
scaled_side(x, m) ==
    IF x = m /\ m \in cap_falls_short THEN max_size - 1
    ELSE (x * max_size) \div m

\* new_size of line 244 when a side exceeds max_size, else the size itself;
\* ratio = min(max_size / width, max_size / height) = max_size / larger side
new_size(width, height) ==
    IF width > max_size \/ height > max_size
    THEN <<scaled_side(width, Max(width, height)),
           scaled_side(height, Max(width, height))>>
    ELSE <<width, height>>

\* scale_factor = 1 / ratio, or 1
scale_of(width, height) ==
    IF width > max_size \/ height > max_size
    THEN Rat(Max(width, height), max_size)
    ELSE Rat(1, 1)

\* lines 256-259: one sample per row, row_sum / width
row_projection(im, width, height) ==
    [sum |-> [y \in 1..height |->
                 LET add(acc, x) == acc + Pixel(im, x, y - 1)
                 IN ForRange(add, 0, 0, width)],
     n |-> width]

\* lines 262-265: one sample per column, col_sum / height
col_projection(im, width, height) ==
    [sum |-> [x \in 1..width |->
                 LET add(acc, y) == acc + Pixel(im, x - 1, y)
                 IN ForRange(add, 0, 0, height)],
     n |-> height]

dark_thresholds == << Rat(2, 10), Rat(3, 10), Rat(4, 10), Rat(5, 10) >>
light_thresholds == << Rat(3, 10), Rat(4, 10), Rat(5, 10) >>
edge_strengths == << 20, 30, 40 >>

line_tolerance == Rat(25, 100)
edge_tolerance == Rat(2, 10)

\* `if conf > best_confidence:` of lines 281, 302 and 327
\* variant: a candidate as good as the one held replaces it
take_if_not_worse(best, conf, result) ==
    IF ~conf_gt(best.confidence, conf)
    THEN [result |-> result, confidence |-> conf]
    ELSE best

take_if_better(best, conf, result) ==
    IF conf_gt(conf, best.confidence)
    THEN [result |-> result, confidence |-> conf]
    ELSE best

\* variant: scores a run whatever its cell counts
scored_candidate(best, h, v, height, width, method) ==
    take_if_better(best,
        Conf(calculate_confidence(h.lines, v.lines, h.cells, v.cells,
                                  height, width), 100, 0),
        [h_lines |-> h.lines, v_lines |-> v.lines,
         rows |-> h.cells, cols |-> v.cells, method |-> method])

\* lines 279-289 (300-310): h and v are what find_periodic_lines returned
\* for the two axes
line_candidate(best, h, v, height, width, method) ==
    IF h.cells > 1 /\ v.cells > 1
    THEN take_if_better(best,
             Conf(calculate_confidence(h.lines, v.lines, h.cells, v.cells,
                                       height, width), 100, 0),
             [h_lines |-> h.lines, v_lines |-> v.lines,
              rows |-> h.cells, cols |-> v.cells, method |-> method])
    ELSE best

\* lines 273-277 (294-298) for one axis
periodic_lines_of(projection, threshold, detect_dark) ==
    find_periodic_lines(detect_grid_lines(projection, threshold, 1, detect_dark),
                        Len(projection.sum), line_tolerance)

\* one iteration of the loop of lines 272-289 (dark) or 293-310 (light)
line_run(best, hp, vp, threshold, detect_dark, method) ==
    line_candidate(best,
                   periodic_lines_of(hp, threshold, detect_dark),
                   periodic_lines_of(vp, threshold, detect_dark),
                   Len(hp.sum), Len(vp.sum), method)

line_sweep(best, hp, vp, thresholds, detect_dark, method) ==
    LET body(b, i) == line_run(b, hp, vp, thresholds[i + 1], detect_dark, method)
    IN ForRange(body, best, 0, Len(thresholds))

\* the hundredths k for which the double round(c, 2) * 0.9 lies above the
\* double nearest to 9k / 1000 where that is itself a hundredth (k a
\* multiple of 10): 0.1 * 0.9 = 0.09000000000000001 > 0.09, and so on
edge_discount_rounds_up == {10, 20, 40, 80}

\* calculate_confidence(...) * 0.9, line 326
edge_confidence(k) ==
    Conf(9 * k, 1000, IF k \in edge_discount_rounds_up THEN 1 ELSE 0)

edges_as_lines(edges) == [i \in 1..Len(edges) |-> <<edges[i], edges[i] + 1>>]

\* lines 326-335
edge_candidate_lines(best, h_lines, v_lines, rows, cols, height, width) ==
    take_if_better(best,
        edge_confidence(calculate_confidence(h_lines, v_lines, rows, cols,
                                             height, width)),
        [h_lines |-> h_lines, v_lines |-> v_lines,
         rows |-> rows, cols |-> cols, method |-> "edges"])

\* variant: an edge run is scored whatever its cell counts
edge_candidate_any(best, h, v, height, width) ==
    edge_candidate_lines(best, edges_as_lines(h.edges), edges_as_lines(v.edges),
                         h.cells, v.cells, height, width)

\* lines 321-324: h and v are what find_periodic_edges returned
edge_candidate(best, h, v, height, width) ==
    IF h.cells > 1 /\ v.cells > 1
    THEN edge_candidate_lines(best, edges_as_lines(h.edges), edges_as_lines(v.edges),
                              h.cells, v.cells, height, width)
    ELSE best

\* lines 315-319 for one axis, min_gap = length // 20
periodic_edges_of(projection, edge_strength) ==
    find_periodic_edges(detect_edges(projection, edge_strength,
                                     Len(projection.sum) \div 20),
                        Len(projection.sum), edge_tolerance)

\* one iteration of the loop of lines 314-335
edge_run(best, hp, vp, edge_strength) ==
    edge_candidate(best, periodic_edges_of(hp, edge_strength),
                   periodic_edges_of(vp, edge_strength), Len(hp.sum), Len(vp.sum))

edge_sweep(best, hp, vp) ==
    LET body(b, i) == edge_run(b, hp, vp, edge_strengths[i + 1])
    IN ForRange(body, best, 0, Len(edge_strengths))

\* variant: the guess takes over the lines of the hypothesis it replaces
accept_guess_with_lines(best, guesses) ==
    IF guesses # <<>> /\ RatGT(guesses[1].score, Rat(8, 10))
    THEN [result |-> [h_lines |-> best.result.h_lines, v_lines |-> best.result.v_lines,
                      rows |-> guesses[1].rows, cols |-> guesses[1].cols,
                      method |-> "guess"],
          confidence |-> Conf(7 * guesses[1].score.n, 10 * guesses[1].score.d, 0)]
    ELSE best

\* lines 340-350
accept_guess(best, guesses) ==
    IF guesses # <<>> /\ RatGT(guesses[1].score, Rat(8, 10))
    THEN [result |-> [h_lines |-> <<>>, v_lines |-> <<>>,
                      rows |-> guesses[1].rows, cols |-> guesses[1].cols,
                      method |-> "guess"],
          confidence |-> Conf(7 * guesses[1].score.n, 10 * guesses[1].score.d, 0)]
    ELSE best

\* lines 339-350, entered when the mode allows it and best_confidence < 0.5
size_guess(best, size) == accept_guess(best, guess_grid_from_size(size[1], size[2]))

\* variant: no default hypothesis
no_default(best) == best

\* lines 353-361
or_default(best) ==
    IF best.result.method = "None"
    THEN [result |-> [h_lines |-> <<>>, v_lines |-> <<>>, rows |-> 1, cols |-> 1,
                      method |-> "none"],
          confidence |-> ZeroConf]
    ELSE best

\* variant: positions rounded to the nearest integer, halves up
scale_lines_rounded(lines, scale) ==
    IF scale.n = scale.d THEN lines
    ELSE [i \in 1..Len(lines) |->
            <<(2 * lines[i][1] * scale.n + scale.d) \div (2 * scale.d),
              (2 * lines[i][2] * scale.n + scale.d) \div (2 * scale.d)>>]

\* int(s * scale_factor), int(e * scale_factor), lines 366-370
scale_lines(lines, scale) ==
    IF scale.n = scale.d THEN lines
    ELSE [i \in 1..Len(lines) |->
            <<(lines[i][1] * scale.n) \div scale.d,
              (lines[i][2] * scale.n) \div scale.d>>]

line_widths(lines) == [i \in 1..Len(lines) |-> lines[i][2] - lines[i][1]]

\* variant: half the mean width, rounded down
half_width(S, n) == S \div (2 * n)

\* max(1, int(S / n / 2 + 1)), line 375
margin_of(S, n) == Max(1, (S + 2 * n) \div (2 * n))

\* variant: the margin of an empty list of widths, whatever the widths
default_margin(all_widths) == margin_of(2, 1)

\* max(1, int(avg_line_width / 2 + 1)) with avg_line_width = mean(all_widths),
\* or 2 when there is none, lines 373-375

suggested_margin(all_widths) ==
    IF all_widths = <<>> THEN margin_of(2, 1)
    ELSE margin_of(SumSeq(all_widths), Len(all_widths))

\* round(S / n, 1) in tenths, ties to the even tenth
tenths_of(S, n) ==
    half_even((20 * S + n) \div (2 * n), (20 * S + n) % (2 * n) = 0).k

\* round(avg_line_width, 1) in tenths, line 383
line_width_tenths(all_widths) ==
    IF all_widths = <<>> THEN tenths_of(2, 1)
    ELSE tenths_of(SumSeq(all_widths), Len(all_widths))

Pending ==
    [kind |-> "pending", exc |-> "", rows |-> 0, cols |-> 0,
     horizontal_lines |-> <<>>, vertical_lines |-> <<>>, margin |-> 0,
     line_width |-> 0, confidence |-> ZeroConf, image_size |-> <<0, 0>>,
     detection_method |-> ""]

Raised(exc) == [Pending EXCEPT !.kind = "raise", !.exc = exc]

\* lines 377-387
returned_dict(best, h_lines_scaled, v_lines_scaled, all_widths, size) ==
    [kind |-> "return", exc |-> "",
     rows |-> best.result.rows, cols |-> best.result.cols,
     horizontal_lines |-> h_lines_scaled, vertical_lines |-> v_lines_scaled,
     margin |-> suggested_margin(all_widths),
     line_width |-> line_width_tenths(all_widths),
     confidence |-> best.confidence,
     image_size |-> size,
     detection_method |-> best.result.method]

\* lines 373-387, given the scaled lines
with_margin(best, h_lines_scaled, v_lines_scaled, size) ==
    returned_dict(best, h_lines_scaled, v_lines_scaled,
                  line_widths(h_lines_scaled \o v_lines_scaled), size)

\* lines 363-387
result_of(best, scale, size) ==
    with_margin(best, scale_lines(best.result.h_lines, scale),
                scale_lines(best.result.v_lines, scale), size)

-----------------------------------------------------------------------------
(* Inputs of the analysis.                                                 *)

\* sheets larger than the exhaustively enumerated ones
Sheets ==
    { \* three unevenly spaced separators on both axes
      Image(8, 8, {0, 2, 3, 6, 7}, {0, 2, 3, 6, 7}, 0, 255),
      Image(8, 8, {0, 2, 3, 6, 7}, {0, 2, 3, 6, 7}, 255, 0),
      \* three evenly spaced separators on both axes
      Image(8, 8, {1, 4, 7}, {1, 4, 7}, 0, 255),
      \* bands whose borders are three or more edges per axis
      Image(15, 15, {4, 5, 6, 7, 12, 13, 14}, {4, 5, 6, 7, 14}, 150, 200),
      Image(13, 13, {4, 5, 6, 7, 12}, {4, 5, 6, 7, 12}, 150, 200),
      \* a dark-line run and an edge run that propose different grids with
      \* the same confidence 0.9
      Image(24, 24, {15, 16}, {1, 2, 3, 4, 12, 23}, 0, 255),
      \* 800 x 200 sheets: uniform, and with one separator row only
      Image(800, 200, {}, {}, 0, 255),
      Image(800, 200, {100}, {}, 0, 255),
      \* downscaled sheets: img_gray is 1000 x 8; the scale factors 2 and
      \* 1.25 are exact in doubles, as are their products with a position.
      \* The marks are those of the downscaled image.
      Image(2000, 16, {3}, {499, 500}, 0, 255),
      Image(1250, 10, {3, 4}, {250, 500, 750}, 0, 255),
      \* a width whose downscaled value is 999: img_gray is 999 x 7
      Image(1062, 8, {3}, {499}, 0, 255),
      \* a separator in the last column of the downscaled sheet
      Image(1250, 10, {3}, {999}, 0, 255),
      \* a sheet whose downscaled height is 0
      Image(2001, 1, {}, {}, 0, 255) }

Inputs == SmallImages \cup Sheets \cup {Undecodable}

-----------------------------------------------------------------------------
(* The call of analyze_spritesheet, step by step.                          *)

Best == [result |-> best_result, confidence |-> best_confidence]

NoMemo == [image_input |-> Undecodable, detection_mode |-> "", ret |-> Pending]

\* variant: the call starts from what an earlier call left
stale_best(stale) == stale

\* best_result = None, best_confidence = 0 (lines 267-268); what the two
\* held before the call is not read
initial_best(stale) == [result |-> NoneResult, confidence |-> ZeroConf]

\* img = image_input.copy() (line 230) and Image.open (lines 232-236) leave
\* the caller's object as it is; resize and convert return new images
input_after_load(im) == im

\* the exception lines 229-265 end with, or "" when they complete:
\* Image.open fails on an undecodable source, Image.resize rejects an empty
\* target size, and row_sum / width (col_sum / height) divides by zero
decoded_error(size, ns) ==
    IF ns # size /\ (ns[1] < 1 \/ ns[2] < 1) THEN "ValueError"
    ELSE IF (ns[2] > 0 /\ ns[1] = 0) \/ (ns[1] > 0 /\ ns[2] = 0)
         THEN "ZeroDivisionError"
    ELSE ""

load_error(im) ==
    IF ~im.decodable THEN "UnidentifiedImageError"
    ELSE decoded_error(<<im.width, im.height>>, new_size(im.width, im.height))

Raise(exc) ==
    /\ ret' = Raised(exc)
    /\ pc' = "raised"

\* lines 238-268 for an image that loads; ns is the size of img_gray
Loaded(im, ns, best) ==
    /\ original_size' = <<im.width, im.height>>
    /\ scale_factor' = scale_of(im.width, im.height)
    /\ horizontal_projection' = row_projection(im, ns[1], ns[2])
    /\ vertical_projection' = col_projection(im, ns[1], ns[2])
    /\ best_result' = best.result
    /\ best_confidence' = best.confidence
    /\ pc' = "dark"
    /\ ret' = ret

LoadOrRaise(exc) ==
    IF exc # ""
    THEN /\ Raise(exc)
         /\ UNCHANGED <<original_size, scale_factor, horizontal_projection,
                        vertical_projection, best_result, best_confidence>>
    ELSE Loaded(image_input, new_size(image_input.width, image_input.height),
                initial_best(Best))

\* lines 229-268
Load ==
    /\ pc = "load"
    /\ image_input' = input_after_load(image_input)
    /\ LoadOrRaise(load_error(image_input))
    /\ UNCHANGED <<detection_mode, memo>>
    /\ UNCHANGED harness_vars
    /\ UNCHANGED service_vars

\* a strategy block that the mode excludes
Skip(next) ==
    /\ pc' = next
    /\ UNCHANGED <<best_result, best_confidence, ret>>

Keep(best, next) ==
    /\ best_result' = best.result
    /\ best_confidence' = best.confidence
    /\ pc' = next
    /\ ret' = ret

\* mean(projection) of line 32 raises StatisticsError on an empty projection
EmptyProjection ==
    Len(horizontal_projection.sum) = 0 \/ Len(vertical_projection.sum) = 0

\* lines 271-289
DarkLines ==
    /\ pc = "dark"
    /\ IF detection_mode \in dark_modes
       THEN IF EmptyProjection
            THEN Raise("StatisticsError") /\ UNCHANGED <<best_result, best_confidence>>
            ELSE Keep(line_sweep(Best, horizontal_projection, vertical_projection,
                                 dark_thresholds, TRUE, "dark_lines"), "light")
       ELSE Skip("light")
    /\ UNCHANGED <<image_input, detection_mode, original_size, scale_factor,
                   horizontal_projection, vertical_projection, memo>>
    /\ UNCHANGED harness_vars
    /\ UNCHANGED service_vars

\* lines 292-310
LightLines ==
    /\ pc = "light"
    /\ IF detection_mode \in light_modes
       THEN IF EmptyProjection
            THEN Raise("StatisticsError") /\ UNCHANGED <<best_result, best_confidence>>
            ELSE Keep(line_sweep(Best, horizontal_projection, vertical_projection,
                                 light_thresholds, FALSE, "light_lines"), "edges")
       ELSE Skip("edges")
    /\ UNCHANGED <<image_input, detection_mode, original_size, scale_factor,
                   horizontal_projection, vertical_projection, memo>>
    /\ UNCHANGED harness_vars
    /\ UNCHANGED service_vars

\* lines 313-335
Edges ==
    /\ pc = "edges"
    /\ IF detection_mode \in edge_modes
       THEN Keep(edge_sweep(Best, horizontal_projection, vertical_projection), "guess")
       ELSE Skip("guess")
    /\ UNCHANGED <<image_input, detection_mode, original_size, scale_factor,
                   horizontal_projection, vertical_projection, memo>>
    /\ UNCHANGED harness_vars
    /\ UNCHANGED service_vars

\* lines 338-350
SizeGuess ==
    /\ pc = "guess"
    /\ IF detection_mode \in guess_modes /\ conf_lt_half(best_confidence)
       THEN Keep(size_guess(Best, original_size), "return")
       ELSE Skip("return")
    /\ UNCHANGED <<image_input, detection_mode, original_size, scale_factor,
                   horizontal_projection, vertical_projection, memo>>
    /\ UNCHANGED harness_vars
    /\ UNCHANGED service_vars

\* lines 353-387
Return ==
    /\ pc = "return"
    /\ ret' = result_of(or_default(Best), scale_factor, original_size)
    /\ pc' = "done"
    /\ UNCHANGED <<image_input, detection_mode, original_size, scale_factor,
                   horizontal_projection, vertical_projection, best_result,
                   best_confidence, memo>>
    /\ UNCHANGED harness_vars
    /\ UNCHANGED service_vars

EmptyProjectionValue == [sum |-> <<>>, n |-> 0]

NoOut == [done |-> FALSE, value |-> <<>>]

HarnessIdle ==
    /\ fn = "none"
    /\ args = <<>>
    /\ out = NoOut

\* a caller about to call analyze_spritesheet(image_input, detection_mode)
Init ==
    /\ image_input \in Inputs
    /\ detection_mode \in Modes
    /\ pc = "load"
    /\ original_size = <<0, 0>>
    /\ scale_factor = Rat(1, 1)
    /\ horizontal_projection = EmptyProjectionValue
    /\ vertical_projection = EmptyProjectionValue
    /\ best_result = NoneResult
    /\ best_confidence = ZeroConf
    /\ ret = Pending
    /\ memo = NoMemo
    /\ HarnessIdle
    /\ ServiceIdle

Next ==
    \/ Load
    \/ DarkLines
    \/ LightLines
    \/ Edges
    \/ SizeGuess
    \/ Return

Spec == Init /\ [][Next]_vars

-----------------------------------------------------------------------------
(* A caller that calls analyze_spritesheet again and again.  What an       *)
(* earlier call left in memory is still there when the next call starts.   *)

CallInputs ==
    { Image(3, 3, {1}, {1}, 0, 255),
      Image(3, 3, {1}, {1}, 255, 0),
      Image(2, 2, {}, {}, 0, 255),
      Image(1, 1, {}, {}, 0, 255),
      Undecodable }

\* the caller starts the next call; memo may record the call just completed
Recall ==
    /\ pc \in {"done", "raised"}
    /\ image_input' \in CallInputs
    /\ detection_mode' \in Modes
    /\ memo' \in {memo, [image_input |-> image_input,
                         detection_mode |-> detection_mode, ret |-> ret]}
    /\ pc' = "load"
    /\ ret' = Pending
    /\ UNCHANGED <<original_size, scale_factor, horizontal_projection,
                   vertical_projection, best_result, best_confidence>>
    /\ UNCHANGED harness_vars
    /\ UNCHANGED service_vars

InitCalls ==
    /\ Init
    /\ image_input \in CallInputs

NextCalls ==
    \/ Load
    \/ DarkLines
    \/ LightLines
    \/ Edges
    \/ SizeGuess
    \/ Return
    \/ Recall

SpecCalls == InitCalls /\ [][NextCalls]_vars

-----------------------------------------------------------------------------
(* detect_grid_lines applied to bounded projections.                       *)

ProjectionValues == {0, 100, 255}

\* projections of whole-number samples (divisor 1)
Projections ==
    { [sum |-> p, n |-> 1] :
        p \in UNION { [1..len -> ProjectionValues] : len \in 1..MaxLen } }

ThresholdRatios == { Rat(1, 5), Rat(1, 2), Rat(4, 5) }

AnalysisIdle ==
    /\ image_input = Undecodable
    /\ detection_mode = "auto"
    /\ pc = "idle"
    /\ original_size = <<0, 0>>
    /\ scale_factor = Rat(1, 1)
    /\ horizontal_projection = EmptyProjectionValue
    /\ vertical_projection = EmptyProjectionValue
    /\ best_result = NoneResult
    /\ best_confidence = ZeroConf
    /\ ret = Pending
    /\ memo = NoMemo

\* a projection of 300 samples of value 200 with two dips to 0, two samples
\* wide, at 99 and 199, scanned with the default arguments
DippedProjection ==
    [sum |-> [i \in 1..300 |-> IF i \in {100, 101, 200, 201} THEN 0 ELSE 200],
     n |-> 1]

DefaultLineArgs == <<DippedProjection, Rat(3, 10), 1, TRUE>>

InitLines ==
    /\ AnalysisIdle
    /\ ServiceIdle
    /\ fn = "detect_grid_lines"
    /\ args \in (Projections \X ThresholdRatios \X (1..MaxLineWidth) \X BOOLEAN)
                  \cup {DefaultLineArgs}
    /\ out = NoOut

CallDetectGridLines ==
    /\ fn = "detect_grid_lines"
    /\ ~out.done
    /\ out' = [done |-> TRUE,
               value |-> detect_grid_lines(args[1], args[2], args[3], args[4])]
    /\ UNCHANGED <<fn, args>>
    /\ UNCHANGED analysis_vars
    /\ UNCHANGED service_vars

NextLines == CallDetectGridLines

SpecLines == InitLines /\ [][NextLines]_vars

-----------------------------------------------------------------------------
(* Properties.                                                             *)

Returned == pc = "done" /\ ret.kind = "return"

\* C1: every record analyze_spritesheet returns has rows >= 1, cols >= 1,
\* 0 <= confidence <= 1, margin >= 1, and image_size equal to the width and
\* height of the image before downscaling, whatever the mode.
C1_ResultInvariants ==
    Returned =>
        /\ ret.rows >= 1
        /\ ret.cols >= 1
        /\ ret.confidence.n >= 0
        /\ ret.confidence.n <= ret.confidence.d
        /\ (ret.confidence.n = ret.confidence.d => ret.confidence.up = 0)
        /\ ret.margin >= 1
        /\ ret.image_size = <<image_input.width, image_input.height>>

\* a downscaled sheet on which a grid was detected
C1_Witness ==
    /\ Returned
    /\ image_input.width > max_size
    /\ ret.rows > 1
    /\ ret.cols > 1
    /\ ret.horizontal_lines # <<>>

\* C2: for a non-empty projection, a threshold ratio in (0, 1), a minimum
\* width >= 1 and either polarity, detect_grid_lines returns intervals sorted
\* by start, pairwise disjoint, each with 0 <= start < end <= len(projection).
C2_IntervalValidity ==
    (fn = "detect_grid_lines" /\ out.done) =>
        /\ \A i \in 1..Len(out.value) :
              /\ 0 <= out.value[i][1]
              /\ out.value[i][1] < out.value[i][2]
              /\ out.value[i][2] <= Len(args[1].sum)
        /\ \A i \in 1..(Len(out.value) - 1) :
              /\ out.value[i][1] < out.value[i + 1][1]
              /\ out.value[i][2] <= out.value[i + 1][1]

\* two intervals, the second one open until the end of the projection
C2_Witness ==
    /\ fn = "detect_grid_lines"
    /\ out.done
    /\ Len(out.value) >= 2
    /\ out.value[Len(out.value)][2] = Len(args[1].sum)

DeterministicResult ==
    (pc \in {"done", "raised"}
       /\ memo.image_input = image_input
       /\ memo.detection_mode = detection_mode)
    => ret = memo.ret

InputKept == pc \notin {"done", "raised"} => image_input' = image_input

\* C3: a call of analyze_spritesheet on the same image content with the same
\* mode as an earlier call ends exactly as that call did (same record, field
\* by field, or same exception), whatever calls ran before or in between, and
\* no step of a call changes the caller's image.
C3_Deterministic == [](DeterministicResult) /\ [][InputKept]_vars

\* the remembered call has been repeated after a call that left a hypothesis
C3_Witness ==
    /\ Returned
    /\ memo.detection_mode = detection_mode
    /\ memo.image_input = image_input
    /\ detection_mode = "guess"
    /\ ret.detection_method = "guess"
    /\ ret = memo.ret

Detectors == {"dark_lines", "light_lines", "edges"}

\* C4: with a mode other than auto, the returned detection_method is that
\* mode or 'none'; in particular a detector mode never falls back on the
\* size guess.
C4_ModeRestricts ==
    (Returned /\ detection_mode # "auto") =>
        ret.detection_method \in {detection_mode, "none"}

\* a detector mode finds nothing on a sheet whose size the guesser would accept
C4_Witness ==
    /\ Returned
    /\ detection_mode \in Detectors
    /\ ret.detection_method = "none"
    /\ size_guess(Best, original_size).result.method = "guess"

InvalidImage(im) == ~im.decodable \/ im.width < 1 \/ im.height < 1

\* C5: analyze_spritesheet returns no result for an image source that cannot
\* be decoded or whose decoded width or height is less than 1 (the call is
\* to fail instead).
C5_InvalidImageFails == pc = "done" => ~InvalidImage(image_input)

\* exactly one of the two lists is empty
missing_axis(h, v) == (h = <<>>) # (v = <<>>)

dark_run_misses_axis(i) ==
    missing_axis(detect_grid_lines(horizontal_projection, dark_thresholds[i], 1, TRUE),
                 detect_grid_lines(vertical_projection, dark_thresholds[i], 1, TRUE))

light_run_misses_axis(i) ==
    missing_axis(detect_grid_lines(horizontal_projection, light_thresholds[i], 1, FALSE),
                 detect_grid_lines(vertical_projection, light_thresholds[i], 1, FALSE))

edge_run_misses_axis(i) ==
    missing_axis(detect_edges(horizontal_projection, edge_strengths[i],
                              Len(horizontal_projection.sum) \div 20),
                 detect_edges(vertical_projection, edge_strengths[i],
                              Len(vertical_projection.sum) \div 20))

Projected == pc \in {"dark", "light", "edges", "guess", "return"} /\ ~EmptyProjection

\* C6 as stated: a dark-line run that finds lines on one axis only is still
\* scored, so once the dark sweep is over a dark-line hypothesis is held.
C6_MissingAxisStillScored ==
    (pc = "light" /\ detection_mode = "dark_lines" /\ ~EmptyProjection
       /\ \E i \in 1..Len(dark_thresholds) : dark_run_misses_axis(i))
    => best_result.method = "dark_lines"

\* C6, amended: a run that finds lines or edges on one axis only raises no
\* error and is not accepted as a candidate: it leaves the hypothesis held so
\* far and its confidence as they are, whatever they are; a call that got as
\* far as the projections of a non-empty image does not end in an exception.
C6_MissingAxisNotScored ==
    /\ Projected =>
          /\ \A i \in 1..Len(dark_thresholds) :
                dark_run_misses_axis(i) =>
                    line_run(Best, horizontal_projection, vertical_projection,
                             dark_thresholds[i], TRUE, "dark_lines") = Best
          /\ \A i \in 1..Len(light_thresholds) :
                light_run_misses_axis(i) =>
                    line_run(Best, horizontal_projection, vertical_projection,
                             light_thresholds[i], FALSE, "light_lines") = Best
          /\ \A i \in 1..Len(edge_strengths) :
                edge_run_misses_axis(i) =>
                    edge_run(Best, horizontal_projection, vertical_projection,
                             edge_strengths[i]) = Best
    /\ pc = "raised" =>
          \/ load_error(image_input) # ""
          \/ image_input.width = 0
          \/ image_input.height = 0

\* every dark-line run found lines on one axis only, and the call returned
C6_Witness ==
    /\ Returned
    /\ detection_mode = "dark_lines"
    /\ ~EmptyProjection
    /\ \A i \in 1..Len(dark_thresholds) : dark_run_misses_axis(i)
    /\ ret.detection_method = "none"

guess_consulted ==
    detection_mode \in {"auto", "guess"} /\ 2 * best_confidence.n < best_confidence.d

\* the first of the guesses, if its score is > 0.8
high_guess(guesses) ==
    IF guesses # <<>> /\ 5 * guesses[1].score.n > 4 * guesses[1].score.d
    THEN <<guesses[1]>>
    ELSE <<>>

\* best_result and best_confidence after the step are the guess g
becomes_guess(g) ==
    /\ best_result' = [h_lines |-> <<>>, v_lines |-> <<>>, rows |-> g.rows,
                       cols |-> g.cols, method |-> "guess"]
    /\ RatLE(best_confidence'.n, best_confidence'.d, 7 * g.score.n, 10 * g.score.d)
    /\ RatLE(7 * g.score.n, 10 * g.score.d, best_confidence'.n, best_confidence'.d)
    /\ best_confidence'.up = 0

guess_rule(high) ==
    IF guess_consulted /\ high # <<>>
    THEN becomes_guess(high[1])
    ELSE best_result' = best_result /\ best_confidence' = best_confidence

\* C7: in the size-guess step, the top candidate of the Size Guesser becomes
\* the hypothesis exactly when the mode is auto or guess, the best detector
\* confidence is < 0.5 and the candidate's score is > 0.8, and then the
\* method is 'guess' and the confidence is 0.7 * score; otherwise the
\* hypothesis held (or none) and its confidence stay as they are.
C7_SizeGuessRule ==
    [][pc = "guess" =>
         guess_rule(high_guess(guess_grid_from_size(original_size[1],
                                                    original_size[2])))]_vars

\* the size guess has replaced a detector hypothesis of low confidence
C7_Witness ==
    /\ pc = "return"
    /\ detection_mode = "auto"
    /\ best_result.method = "guess"
    /\ conf_gt(edge_sweep(line_sweep(line_sweep(initial_best(Best),
                   horizontal_projection, vertical_projection,
                   dark_thresholds, TRUE, "dark_lines"),
                   horizontal_projection, vertical_projection,
                   light_thresholds, FALSE, "light_lines"),
                   horizontal_projection, vertical_projection).confidence,
               ZeroConf)

\* C8: when the call ends with no hypothesis held (no detector run accepted,
\* size guess not accepted or not consulted), it returns rows = 1, cols = 1,
\* confidence = 0, detection_method = 'none' and two empty line lists.
C8_Default ==
    (Returned /\ best_result = NoneResult) =>
        /\ ret.rows = 1
        /\ ret.cols = 1
        /\ ret.confidence.n = 0
        /\ ret.confidence.up = 0
        /\ ret.detection_method = "none"
        /\ ret.horizontal_lines = <<>>
        /\ ret.vertical_lines = <<>>

\* auto mode on a non-empty image: all detectors ran, the guess was consulted
C8_Witness ==
    /\ Returned
    /\ best_result = NoneResult
    /\ detection_mode = "auto"
    /\ image_input.width >= 1
    /\ ret.detection_method = "none"

\* floor(avg / 2) + 1 for avg the mean of the widths
margin_formula(widths) ==
    Max(1, SumSeq(widths) \div (2 * Len(widths)) + 1)

\* C9: the returned margin is max(1, floor(avg_width / 2) + 1), avg_width
\* the mean of end - start over the returned horizontal and vertical
\* intervals together, and 2 when both lists are empty.
C9_Margin ==
    Returned =>
        IF ret.horizontal_lines = <<>> /\ ret.vertical_lines = <<>>
        THEN ret.margin = 2
        ELSE ret.margin =
                margin_formula(line_widths(ret.horizontal_lines \o ret.vertical_lines))

\* rescaled intervals of unequal widths
C9_Witness ==
    /\ Returned
    /\ scale_factor # Rat(1, 1)
    /\ ret.horizontal_lines # <<>>
    /\ ret.vertical_lines # <<>>
    /\ \E i \in 1..Len(ret.vertical_lines) :
          ret.vertical_lines[i][2] - ret.vertical_lines[i][1]
            # ret.horizontal_lines[1][2] - ret.horizontal_lines[1][1]

\* an 800 x 200 image, auto mode, the result is no detector's
NoDetector800x200 ==
    /\ Returned
    /\ detection_mode = "auto"
    /\ original_size = <<800, 200>>
    /\ ret.detection_method \notin Detectors

\* the confidence c is 0.7 * size_score(800, 200, rows, cols)
guess_confidence(c, rows, cols) ==
    /\ RatLE(c.n, c.d, 7 * size_score(800, 200, rows, cols).n,
             10 * size_score(800, 200, rows, cols).d)
    /\ RatLE(7 * size_score(800, 200, rows, cols).n,
             10 * size_score(800, 200, rows, cols).d, c.n, c.d)

\* C10 as stated: on an 800 x 200 image with no accepted detector candidate,
\* auto mode returns 'guess' with rows = 2, cols = 8.
C10_Guess2x8 ==
    NoDetector800x200 =>
        /\ ret.detection_method = "guess"
        /\ ret.rows = 2
        /\ ret.cols = 8
        /\ guess_confidence(ret.confidence, 2, 8)

\* C10, amended: on an 800 x 200 image with no accepted detector candidate,
\* auto mode returns 'guess' with rows = 2, cols = 4, the first catalog entry
\* of the highest score, and confidence 0.7 * that score (0.7).
C10_Guess2x4 ==
    NoDetector800x200 =>
        /\ ret.detection_method = "guess"
        /\ ret.rows = 2
        /\ ret.cols = 4
        /\ guess_confidence(ret.confidence, 2, 4)
        /\ 10 * ret.confidence.n = 7 * ret.confidence.d

\* the uniform 800 x 200 sheet has been analysed in auto mode
C10_Witness ==
    /\ NoDetector800x200
    /\ image_input.rowmark = {}
    /\ image_input.colmark = {}
    /\ ret.detection_method = "guess"


\* every sample of the projection is the same
constant_projection(projection) ==
    \A i \in 1..Len(projection.sum) : projection.sum[i] = projection.sum[1]

\* no line at any threshold of the sweep, no edge at any strength
nothing_detected(projection) ==
    /\ \A i \in 1..Len(dark_thresholds) :
          detect_grid_lines(projection, dark_thresholds[i], 1, TRUE) = <<>>
    /\ \A i \in 1..Len(light_thresholds) :
          detect_grid_lines(projection, light_thresholds[i], 1, FALSE) = <<>>
    /\ \A i \in 1..Len(edge_strengths) :
          detect_edges(projection, edge_strengths[i],
                       Len(projection.sum) \div 20) = <<>>

UniformProjections ==
    /\ pc \in {"dark", "light", "edges", "guess", "return", "done"}
    /\ ~EmptyProjection
    /\ constant_projection(horizontal_projection)
    /\ constant_projection(vertical_projection)

\* no candidate of the Size Guesser scores > 0.8
no_high_guess(guesses) ==
    \A i \in 1..Len(guesses) : 5 * guesses[i].score.n <= 4 * guesses[i].score.d

\* C11: when both projections are constant, detect_grid_lines finds no
\* interval at any dark or light threshold of the sweep and detect_edges no
\* edge at any strength, on both axes; when moreover no candidate of the Size
\* Guesser scores > 0.8, the call returns rows = 1, cols = 1, confidence = 0,
\* detection_method = 'none'.
C11_UniformYieldsNone ==
    UniformProjections =>
        /\ nothing_detected(horizontal_projection)
        /\ nothing_detected(vertical_projection)
        /\ (pc = "done"
              /\ no_high_guess(guess_grid_from_size(original_size[1],
                                                    original_size[2])))
           => /\ ret.kind = "return"
              /\ ret.rows = 1
              /\ ret.cols = 1
              /\ ret.confidence.n = 0
              /\ ret.confidence.up = 0
              /\ ret.detection_method = "none"

\* a uniform black image of more than one pixel, analysed in auto mode
C11_Witness ==
    /\ UniformProjections
    /\ pc = "done"
    /\ detection_mode = "auto"
    /\ horizontal_projection.sum[1] = 0
    /\ Len(horizontal_projection.sum) + Len(vertical_projection.sum) > 2
    /\ ret.detection_method = "none"


-----------------------------------------------------------------------------
(* find_periodic_lines and find_periodic_edges applied to bounded raw      *)
(* intervals and edges.                                                    *)

\* the raw intervals detect_grid_lines finds on two-valued projections of
\* MaxPos samples
RawLines ==
    { detect_grid_lines([sum |-> p, n |-> 1], Rat(1, 2), 1, TRUE) :
        p \in [1..MaxPos -> {0, 255}] }

\* the elements of a set of integers in increasing order
Increasing(S) ==
    [i \in 1..Cardinality(S) |->
        CHOOSE x \in S : Cardinality({y \in S : y < x}) = i - 1]

\* strictly increasing positions, as detect_edges returns them
RawEdges ==
    { Increasing(S) : S \in { T \in SUBSET (0..MaxEdgePos) : Cardinality(T) <= MaxEdges } }

InitFilters ==
    /\ AnalysisIdle
    /\ ServiceIdle
    /\ \/ /\ fn = "find_periodic_lines"
          /\ args \in RawLines \X {MaxPos} \X {line_tolerance}
       \/ /\ fn = "find_periodic_edges"
          /\ args \in RawEdges \X {MaxEdgePos + 2} \X {edge_tolerance}
    /\ out = NoOut

CallFindPeriodicLines ==
    /\ fn = "find_periodic_lines"
    /\ ~out.done
    /\ out' = [done |-> TRUE,
               value |-> find_periodic_lines(args[1], args[2], args[3])]
    /\ UNCHANGED <<fn, args>>
    /\ UNCHANGED analysis_vars
    /\ UNCHANGED service_vars

CallFindPeriodicEdges ==
    /\ fn = "find_periodic_edges"
    /\ ~out.done
    /\ out' = [done |-> TRUE,
               value |-> find_periodic_edges(args[1], args[2], args[3])]
    /\ UNCHANGED <<fn, args>>
    /\ UNCHANGED analysis_vars
    /\ UNCHANGED service_vars

NextFilters ==
    \/ CallFindPeriodicLines
    \/ CallFindPeriodicEdges

SpecFilters == InitFilters /\ [][NextFilters]_vars

LinesFiltered == fn = "find_periodic_lines" /\ out.done
EdgesFiltered == fn = "find_periodic_edges" /\ out.done

\* a is b with some elements left out
RECURSIVE IsSubsequence(_, _)
IsSubsequence(a, b) ==
    IF a = <<>> THEN TRUE
    ELSE IF b = <<>> THEN FALSE
    ELSE IF Head(a) = Head(b) THEN IsSubsequence(Tail(a), Tail(b))
    ELSE IsSubsequence(a, Tail(b))

first_kept(kept, raw) ==
    raw # <<>> => (kept # <<>> /\ kept[1] = raw[1] /\ IsSubsequence(kept, raw))

\* C12: on a non-empty input, find_periodic_lines and find_periodic_edges
\* return a list that starts with the first raw interval (edge) and is a
\* subsequence of the input, in the input's order.
C12_FirstKept ==
    /\ LinesFiltered => first_kept(out.value.lines, args[1])
    /\ EdgesFiltered => first_kept(out.value.edges, args[1])

\* the filter dropped a later interval and kept the first
C12_Witness ==
    /\ LinesFiltered
    /\ Len(args[1]) >= 3
    /\ Len(out.value.lines) < Len(args[1])
    /\ out.value.lines[1] = args[1][1]


-----------------------------------------------------------------------------
(* calculate_confidence applied to bounded lists of intervals.             *)

\* sorted, disjoint intervals as the detectors and the filter produce them
SortedLines ==
    { detect_grid_lines([sum |-> p, n |-> 1], Rat(1, 2), 1, TRUE) :
        p \in [1..MaxConfPos -> {0, 255}] }

\* lists whose center gaps have mean 0 or a negative mean
UnsortedLines ==
    { << <<0, 1>>, <<0, 1>>, <<0, 1>> >>,
      << <<2, 3>>, <<0, 1>>, <<2, 3>> >>,
      << <<4, 5>>, <<2, 3>>, <<0, 1>> >> }

ConfLines == SortedLines \cup UnsortedLines

\* what the other axis carries: nothing, one gap, gaps of mean 0, uneven
\* gaps, even gaps
OtherAxisLines ==
    { <<>>,
      << <<1, 2>>, <<3, 4>> >>,
      << <<2, 3>>, <<0, 1>>, <<2, 3>> >>,
      << <<0, 1>>, <<2, 3>>, <<5, 6>> >>,
      << <<0, 1>>, <<2, 3>>, <<4, 5>> >> }

\* rows = len(h_lines) + 1 as the filter estimates it, or one more
AllConfArgs ==
    { <<t[1][1], t[1][2], Len(t[1][1]) + 1 + t[2], Len(t[1][2]) + 1 + t[3],
        MaxConfPos, MaxConfPos>> :
        t \in ((ConfLines \X OtherAxisLines) \cup (OtherAxisLines \X ConfLines))
                \X {0, 1} \X {0, 1} }

\* those for which the enclosure of the factors decides the returned hundredth
ConfArgs ==
    { a \in AllConfArgs : confidence_is_exact(a[1], a[2], a[3], a[4]) }

InitConfidence ==
    /\ AnalysisIdle
    /\ ServiceIdle
    /\ fn = "calculate_confidence"
    /\ args \in ConfArgs
    /\ out = NoOut

CallCalculateConfidence ==
    /\ fn = "calculate_confidence"
    /\ ~out.done
    /\ out' = [done |-> TRUE,
               value |-> calculate_confidence(args[1], args[2], args[3], args[4],
                                              args[5], args[6])]
    /\ UNCHANGED <<fn, args>>
    /\ UNCHANGED analysis_vars
    /\ UNCHANGED service_vars

NextConfidence == CallCalculateConfidence

SpecConfidence == InitConfidence /\ [][NextConfidence]_vars

Scored == fn = "calculate_confidence" /\ out.done

\* the hundredth the model returns is the one the doubles give
ScoredExactly ==
    Scored => confidence_is_exact(args[1], args[2], args[3], args[4])


\* the axis has a coefficient of variation: two gaps or more, of positive mean
has_cv(lines) == Len(lines) >= 3 /\ SumSeq(Gaps(centers2(lines))) > 0

cv2(lines) == cv_squared(Gaps(centers2(lines)))

\* the coefficient of variation of b is at least that of a
cv_not_below(a, b) == RatLE(cv2(a).n, cv2(a).d, cv2(b).n, cv2(b).d)

\* h2 is as complete as h_lines and no more regular
worse_rows(h_lines, h2, rows) ==
    /\ has_cv(h2)
    /\ (Len(h2) < rows - 1) = (Len(h_lines) < rows - 1)
    /\ cv_not_below(h_lines, h2)

worse_cols(v_lines, v2, cols) ==
    /\ has_cv(v2)
    /\ (Len(v2) < cols - 1) = (Len(v_lines) < cols - 1)
    /\ cv_not_below(v_lines, v2)

\* a score enclosed by b, where b decides it, is at most c
not_above(b, c) == bounds_decide(b) => b.lo <= c

\* ... and is below c
strictly_below(b, c) == bounds_decide(b) /\ b.lo < c

confidence_monotone(c, h_lines, v_lines, rows, cols) ==
    /\ c >= 0
    /\ c <= 100
    /\ Len(h_lines) >= rows - 1 =>
          not_above(confidence_bounds(h_lines, v_lines, Len(h_lines) + 2, cols), c)
    /\ Len(v_lines) >= cols - 1 =>
          not_above(confidence_bounds(h_lines, v_lines, rows, Len(v_lines) + 2), c)
    /\ has_cv(h_lines) =>
          \A h2 \in SortedLines :
             worse_rows(h_lines, h2, rows) =>
                not_above(confidence_bounds(h2, v_lines, rows, cols), c)
    /\ has_cv(v_lines) =>
          \A v2 \in SortedLines :
             worse_cols(v_lines, v2, cols) =>
                not_above(confidence_bounds(h_lines, v2, rows, cols), c)

\* C13: for rows >= 1 and cols >= 1, calculate_confidence returns a value in
\* [0, 1] (0..100 hundredths), and the value does not increase when, all
\* else fixed, an axis that had at least rows - 1 (cols - 1) lines is
\* expected to have more than it has, or when the lines of an axis are
\* replaced by lines whose center gaps have a larger coefficient of variation.
C13_ConfidenceMonotone ==
    Scored => confidence_monotone(out.value, args[1], args[2], args[3], args[4])

\* a less regular axis that scores strictly lower
C13_Witness ==
    /\ Scored
    /\ has_cv(args[1])
    /\ \E h2 \in SortedLines :
          /\ worse_rows(args[1], h2, args[3])
          /\ strictly_below(confidence_bounds(h2, args[2], args[3], args[4]), out.value)


\* ---------------------------------------------------------------------
\* core/slicer.py
\* ---------------------------------------------------------------------

MaxCells == 4
MaxSliceSide == 6
SliceMargins == {0, 1, 2}

\* int() of the quotient n / d, d > 0: truncation towards zero
int_of(n, d) == IF n >= 0 THEN n \div d ELSE -((-n) \div d)

\* variant: the box of the transposed cell
transposed_box(img_width, img_height, rows, cols, margin, r, c) ==
    << int_of(r * img_width + margin * cols, cols),
       int_of(c * img_height + margin * rows, rows),
       int_of((r + 1) * img_width - margin * cols, cols),
       int_of((c + 1) * img_height - margin * rows, rows) >>

\* crop_box of cell (r, c): left = c * cell_width, upper = r * cell_height,
\* right = left + cell_width, lower = upper + cell_height.  The quotients are
\* exact here; the doubles of the code give the same integers for up to 5
\* rows and columns (with 6 columns, 5 * (w / 6) + w / 6 falls below w for
\* w in {1, 2, 4, 8} and the last box is one pixel narrower).
crop_box(img_width, img_height, rows, cols, margin, r, c) ==
    << int_of(c * img_width + margin * cols, cols),
       int_of(r * img_height + margin * rows, rows),
       int_of((c + 1) * img_width - margin * cols, cols),
       int_of((r + 1) * img_height - margin * rows, rows) >>

\* img.crop(crop_box): the frame is determined by the image and its box
crop(img_width, img_height, box) == [size |-> <<img_width, img_height>>, box |-> box]

\* for c in range(cols): ... frames.append(frame)
RECURSIVE frames_of_row(_, _, _, _, _, _, _, _)
frames_of_row(frames, img_width, img_height, rows, cols, margin, r, c) ==
    IF c >= cols THEN frames
    ELSE frames_of_row(
           Append(frames,
                  crop(img_width, img_height,
                       crop_box(img_width, img_height, rows, cols, margin, r, c))),
           img_width, img_height, rows, cols, margin, r, c + 1)

\* for r in range(rows): ...
RECURSIVE frames_of_rows(_, _, _, _, _, _, _)
frames_of_rows(frames, img_width, img_height, rows, cols, margin, r) ==
    IF r >= rows THEN frames
    ELSE frames_of_rows(
           frames_of_row(frames, img_width, img_height, rows, cols, margin, r, 0),
           img_width, img_height, rows, cols, margin, r + 1)

slice_spritesheet_to_frames(img_width, img_height, rows, cols, margin) ==
    frames_of_rows(<<>>, img_width, img_height, rows, cols, margin, 0)

\* f"{count:03d}": at least three digits, padded with zeros
format_03d(count) ==
    IF count < 10 THEN "00" \o ToString(count)
    ELSE IF count < 100 THEN "0" \o ToString(count)
    ELSE ToString(count)

filename_of(count) == "frame_" \o format_03d(count) \o ".png"

\* os.path.join(output_folder, filename) for a folder name without a
\* trailing separator
path_join(output_folder, filename) == output_folder \o "/" \o filename

\* frame.save(save_path); saved_files.append(save_path); count += 1
save_frame(st, output_folder, frame) ==
    [saved_files |-> Append(st.saved_files,
                            path_join(output_folder, filename_of(st.count))),
     written |-> Append(st.written,
                        [path |-> path_join(output_folder, filename_of(st.count)),
                         frame |-> frame]),
     count |-> st.count + 1]

RECURSIVE save_row(_, _, _, _, _, _, _, _, _)
save_row(st, output_folder, img_width, img_height, rows, cols, margin, r, c) ==
    IF c >= cols THEN st
    ELSE save_row(
           save_frame(st, output_folder,
                      crop(img_width, img_height,
                           crop_box(img_width, img_height, rows, cols, margin, r, c))),
           output_folder, img_width, img_height, rows, cols, margin, r, c + 1)

RECURSIVE save_rows(_, _, _, _, _, _, _, _)
save_rows(st, output_folder, img_width, img_height, rows, cols, margin, r) ==
    IF r >= rows THEN st
    ELSE save_rows(
           save_row(st, output_folder, img_width, img_height, rows, cols, margin, r, 0),
           output_folder, img_width, img_height, rows, cols, margin, r + 1)

\* the returned list of paths and, in write order, the files written
slice_spritesheet(output_folder, img_width, img_height, rows, cols, margin) ==
    save_rows([saved_files |-> <<>>, written |-> <<>>, count |-> 1],
              output_folder, img_width, img_height, rows, cols, margin, 0)

OutputFolders == {"out"}

SliceArgs ==
    OutputFolders \X (1..MaxSliceSide) \X (1..MaxSliceSide)
        \X (1..MaxCells) \X (1..MaxCells) \X SliceMargins

InitSlice ==
    /\ AnalysisIdle
    /\ ServiceIdle
    /\ fn \in {"slice_spritesheet", "slice_spritesheet_to_frames"}
    /\ args \in SliceArgs
    /\ out = NoOut

CallSliceSpritesheet ==
    /\ fn = "slice_spritesheet"
    /\ ~out.done
    /\ out' = [done |-> TRUE,
               value |-> slice_spritesheet(args[1], args[2], args[3],
                                           args[4], args[5], args[6])]
    /\ UNCHANGED <<fn, args>>
    /\ UNCHANGED analysis_vars
    /\ UNCHANGED service_vars

CallSliceSpritesheetToFrames ==
    /\ fn = "slice_spritesheet_to_frames"
    /\ ~out.done
    /\ out' = [done |-> TRUE,
               value |-> slice_spritesheet_to_frames(args[2], args[3],
                                                     args[4], args[5], args[6])]
    /\ UNCHANGED <<fn, args>>
    /\ UNCHANGED analysis_vars
    /\ UNCHANGED service_vars

NextSlice == CallSliceSpritesheet \/ CallSliceSpritesheetToFrames

SpecSlice == InitSlice /\ [][NextSlice]_vars

Sliced == fn = "slice_spritesheet" /\ out.done
SlicedToFrames == fn = "slice_spritesheet_to_frames" /\ out.done

\* the crop of grid cell (r, c): columns split the width, rows the height
cell_frame(a, r, c) ==
    [size |-> <<a[2], a[3]>>,
     box |-> << int_of(c * a[2] + a[6] * a[5], a[5]),
                int_of(r * a[3] + a[6] * a[4], a[4]),
                int_of((c + 1) * a[2] - a[6] * a[5], a[5]),
                int_of((r + 1) * a[3] - a[6] * a[4], a[4]) >>]

\* frame_001.png, frame_002.png, ...: the three decimal digits of k
numbered_name(k) ==
    "frame_" \o ToString(k \div 100) \o ToString((k \div 10) % 10)
             \o ToString(k % 10) \o ".png"

row_major_frames(frames, a) ==
    /\ Len(frames) = a[4] * a[5]
    /\ \A r \in 0..(a[4] - 1) : \A c \in 0..(a[5] - 1) :
          frames[r * a[5] + c + 1] = cell_frame(a, r, c)

numbered_files(res, a) ==
    /\ Len(res.saved_files) = a[4] * a[5]
    /\ Len(res.written) = a[4] * a[5]
    /\ \A k \in 1..(a[4] * a[5]) :
          /\ res.saved_files[k] = a[1] \o "/" \o numbered_name(k)
          /\ res.written[k].path = res.saved_files[k]
    /\ row_major_frames([k \in 1..Len(res.written) |-> res.written[k].frame], a)
    /\ res.saved_files[1] = a[1] \o "/frame_001.png"
    /\ Len(res.saved_files) >= 2 => res.saved_files[2] = a[1] \o "/frame_002.png"

sample_in_line(val, total, len, t, detect_dark) ==
    IF detect_dark
    THEN ~RatLE(total * t.n, len * t.d, val, 1)
    ELSE (val * t.d - 255 * (t.d - t.n)) * len > total * t.n

in_line_samples(projection, t, detect_dark) ==
    [i \in 0..(Len(projection.sum) - 1) |->
        sample_in_line(projection.sum[i + 1], SumSeq(projection.sum),
                       Len(projection.sum), t, detect_dark)]

\* [s, e) is a run of in-line samples that cannot be extended
maximal_run(inl, len, s, e) ==
    /\ \A i \in s..(e - 1) : inl[i]
    /\ s = 0 \/ ~inl[s - 1]
    /\ e = len \/ ~inl[e]

runs_of(inl, len, min_line_width) ==
    { se \in (0..(len - 1)) \X (1..len) :
        /\ se[2] - se[1] >= min_line_width
        /\ maximal_run(inl, len, se[1], se[2]) }

exactly_the_runs(lines, inl, len, min_line_width) ==
    /\ { lines[i] : i \in 1..Len(lines) } = runs_of(inl, len, min_line_width)
    /\ \A i \in 1..(Len(lines) - 1) : lines[i][1] < lines[i + 1][1]

LinesDetected == fn = "detect_grid_lines" /\ out.done

\* C15: detect_grid_lines returns, in order, exactly the maximal runs of
\* consecutive in-line samples of length >= min_line_width, a run that reaches
\* the end of the projection included, a sample being in-line iff it is below
\* avg * threshold_ratio (dark) or above avg + (255 - avg) * (1 - threshold_ratio)
\* (light); the projection of 300 samples of 200 with zeros at [99,101) and
\* [199,201) gives [(99,101), (199,201)] at ratio 0.3.
C15_MaximalRuns ==
    LinesDetected =>
        /\ \A inl \in {in_line_samples(args[1], args[2], args[4])} :
              exactly_the_runs(out.value, inl, Len(args[1].sum), args[3])
        /\ args = DefaultLineArgs => out.value = << <<99, 101>>, <<199, 201>> >>

\* the two dips of the 300-sample projection have been found
C15_Witness ==
    /\ LinesDetected
    /\ args = DefaultLineArgs
    /\ out.value = << <<99, 101>>, <<199, 201>> >>


\* ---------------------------------------------------------------------
\* detect_edges on its own
\* ---------------------------------------------------------------------

MaxGap == 3
EdgeStrengths == {30, 100, 155}

InitEdges ==
    /\ AnalysisIdle
    /\ ServiceIdle
    /\ fn = "detect_edges"
    /\ args \in Projections \X EdgeStrengths \X (0..MaxGap)
    /\ out = NoOut

CallDetectEdges ==
    /\ fn = "detect_edges"
    /\ ~out.done
    /\ out' = [done |-> TRUE,
               value |-> detect_edges(args[1], args[2], args[3])]
    /\ UNCHANGED <<fn, args>>
    /\ UNCHANGED analysis_vars
    /\ UNCHANGED service_vars

NextEdges == CallDetectEdges

SpecEdges == InitEdges /\ [][NextEdges]_vars

EdgesDetected == fn = "detect_edges" /\ out.done

\* sample i of the projection, counted from 0
sample(projection, i) == projection.sum[i + 1]

\* the step to sample i from the sample before it is an edge
step_into(projection, strength, i) ==
    /\ i >= 1
    /\ i <= Len(projection.sum) - 1
    /\ Abs(sample(projection, i) - sample(projection, i - 1)) >= strength

\* the step from sample i to the sample after it is an edge
step_from(projection, strength, i) ==
    /\ i >= 0
    /\ i <= Len(projection.sum) - 2
    /\ Abs(sample(projection, i + 1) - sample(projection, i)) >= strength

\* the accepted positions below i
accepted_before(edges, i) == { edges[k] : k \in 1..Len(edges) } \cap (0..(i - 1))

last_of(S) == CHOOSE m \in S : \A x \in S : x <= m

\* position i is far enough from the last accepted position, if any
clear_of(edges, min_gap, i) ==
    \/ accepted_before(edges, i) = {}
    \/ i - last_of(accepted_before(edges, i)) >= min_gap

strictly_increasing(edges) ==
    \A k \in 1..(Len(edges) - 1) : edges[k] < edges[k + 1]

\* C16 as stated: detect_edges returns exactly the left-to-right greedy
\* selection of the positions i with |proj[i] - proj[i-1]| >= min_edge_strength
\* that are at least min_gap past the last accepted position, and the
\* returned positions are strictly increasing.
C16_GreedyAtUpperSample ==
    EdgesDetected =>
        /\ strictly_increasing(out.value)
        /\ \A i \in 0..Len(args[1].sum) :
              (i \in { out.value[k] : k \in 1..Len(out.value) })
                <=> /\ step_into(args[1], args[2], i)
                    /\ clear_of(out.value, args[3], i)

\* C16 amended: detect_edges returns exactly the left-to-right greedy
\* selection of the positions i with |proj[i+1] - proj[i]| >= min_edge_strength
\* (the index of the first difference, the lower sample of the step) that
\* are at least min_gap past the last accepted position, and the returned
\* positions are strictly increasing.
C16_GreedyAtLowerSample ==
    EdgesDetected =>
        /\ strictly_increasing(out.value)
        /\ \A i \in 0..Len(args[1].sum) :
              (i \in { out.value[k] : k \in 1..Len(out.value) })
                <=> /\ step_from(args[1], args[2], i)
                    /\ clear_of(out.value, args[3], i)

\* an edge at position 0, a strong step right after it passed over for being
\* too close, and the next strong step accepted
C16_Witness ==
    /\ EdgesDetected
    /\ out.value = <<0, 2>>
    /\ args[3] = 2
    /\ step_from(args[1], args[2], 1)


\* twice the median of the gaps between consecutive centers, the centers
\* taken doubled: four times the period
period4(lines) == median2(Gaps(centers2(lines)))

\* 0.75 * period <= gap <= 1.25 * period for gap = g2 / 2 and period = p4 / 4
near_period(g2, p4) == 3 * p4 <= 8 * g2 /\ 8 * g2 <= 5 * p4

\* the intervals kept when each is measured from the most recently kept one
RECURSIVE kept_from_last_kept(_, _, _, _)
kept_from_last_kept(lines, i, kept, p4) ==
    IF i > Len(lines) THEN kept
    ELSE IF near_period(center2(lines[i]) - center2(kept[Len(kept)]), p4)
         THEN kept_from_last_kept(lines, i + 1, Append(kept, lines[i]), p4)
         ELSE kept_from_last_kept(lines, i + 1, kept, p4)

\* C17: in find_periodic_lines with at least 2 raw intervals, period is the
\* median of the gaps between consecutive raw centers, the first interval is
\* kept, and each later interval is kept iff the gap from the center of the
\* most recently kept interval to its own center lies in
\* [0.75 * period, 1.25 * period].
C17_KeptFromLastKept ==
    (LinesFiltered /\ Len(args[1]) >= 2) =>
        out.value.lines =
            kept_from_last_kept(args[1], 2, <<args[1][1]>>, period4(args[1]))


\* the multiple of 5 nearest to g (an integer is never halfway between two)
nearest5(g) == CHOOSE m \in { 5 * k : k \in 0..(g + 5) } : 2 * Abs(g - m) < 5

occurrences(s, v) == Cardinality({ i \in 1..Len(s) : s[i] = v })

first_index(s, v) == CHOOSE i \in 1..Len(s) : s[i] = v /\ \A j \in 1..(i - 1) : s[j] # v

\* v occurs most often in s and, of the values that do, occurs first
modal_first(s, v) ==
    /\ occurrences(s, v) >= 1
    /\ \A i \in 1..Len(s) :
          \/ occurrences(s, s[i]) < occurrences(s, v)
          \/ occurrences(s, s[i]) = occurrences(s, v)
             /\ first_index(s, v) <= first_index(s, s[i])

modal_period(edges) ==
    CHOOSE v \in { nearest5(Gaps(edges)[i]) : i \in 1..(Len(edges) - 1) } :
        modal_first([i \in 1..(Len(edges) - 1) |-> nearest5(Gaps(edges)[i])], v)

\* the edges kept when each is measured from the last kept one:
\* 0.8 * period <= distance <= 1.2 * period
RECURSIVE edges_from_last_kept(_, _, _, _)
edges_from_last_kept(edges, i, kept, period) ==
    IF i > Len(edges) THEN kept
    ELSE IF /\ 4 * period <= 5 * (edges[i] - kept[Len(kept)])
            /\ 5 * (edges[i] - kept[Len(kept)]) <= 6 * period
         THEN edges_from_last_kept(edges, i + 1, Append(kept, edges[i]), period)
         ELSE edges_from_last_kept(edges, i + 1, kept, period)

\* two values share the highest count among the rounded gaps
tied_gaps(edges) ==
    \E i, j \in 1..(Len(edges) - 1) :
        /\ nearest5(Gaps(edges)[i]) # nearest5(Gaps(edges)[j])
        /\ modal_first([k \in 1..(Len(edges) - 1) |-> nearest5(Gaps(edges)[k])],
                       nearest5(Gaps(edges)[i]))
        /\ occurrences([k \in 1..(Len(edges) - 1) |-> nearest5(Gaps(edges)[k])],
                       nearest5(Gaps(edges)[j]))
             = occurrences([k \in 1..(Len(edges) - 1) |-> nearest5(Gaps(edges)[k])],
                           nearest5(Gaps(edges)[i]))

\* C18: in find_periodic_edges with at least 3 raw edges, period is the most
\* frequent value among the gaps rounded to the nearest multiple of 5 (on a
\* tie, the value that occurs first in gap order), the first edge is kept, and
\* each later edge is kept iff its distance from the last kept edge lies in
\* [0.8 * period, 1.2 * period].
C18_ModalPeriod ==
    (EdgesFiltered /\ Len(args[1]) >= 3) =>
        out.value.edges =
            edges_from_last_kept(args[1], 2, <<args[1][1]>>, modal_period(args[1]))

\* two rounded gaps tie for the most frequent; with the first as the period
\* an edge is kept after one was dropped
C18_Witness ==
    /\ EdgesFiltered
    /\ Len(args[1]) >= 4
    /\ tied_gaps(args[1])
    /\ Len(out.value.edges) >= 2
    /\ Len(out.value.edges) < Len(args[1])
    /\ \E k \in 2..Len(out.value.edges) : \E i \in 2..Len(args[1]) :
          /\ out.value.edges[k] = args[1][i]
          /\ out.value.edges[k - 1] # args[1][i - 1]


\* C19: the cell count returned by the periodicity filter is the number of
\* kept intervals + 1 for intervals; the number of kept edges, without + 1,
\* for edges when there are at least 3 raw edges; and with fewer than 2 raw
\* intervals or fewer than 3 raw edges the input comes back unfiltered with
\* cell count = input length + 1.
C19_CellCounts ==
    /\ LinesFiltered =>
          /\ out.value.cells = Len(out.value.lines) + 1
          /\ Len(args[1]) < 2 =>
                /\ out.value.lines = args[1]
                /\ out.value.cells = Len(args[1]) + 1
    /\ EdgesFiltered =>
          /\ Len(args[1]) >= 3 => out.value.cells = Len(out.value.edges)
          /\ Len(args[1]) < 3 =>
                /\ out.value.edges = args[1]
                /\ out.value.cells = Len(args[1]) + 1

\* four raw edges of which the filter kept two: two cells
C19_Witness ==
    /\ EdgesFiltered
    /\ Len(args[1]) = 4
    /\ Len(out.value.edges) = 2
    /\ out.value.cells = 2


\* the axis has no gap or exactly one gap
few_gaps(lines) == Len(lines) <= 2

\* the axis has two gaps or more, of mean zero
zero_mean(lines) == Len(lines) >= 3 /\ SumSeq(Gaps(centers2(lines))) = 0

\* the confidence that results when the rows (columns) axis contributes no
\* regularity factor: the axis is emptied and the expected count set so that
\* its completeness penalty stays as it was
without_row_factor(h_lines, v_lines, rows, cols) ==
    calculate_confidence(<<>>, v_lines, IF Len(h_lines) < rows - 1 THEN 2 ELSE 1,
                         cols, 0, 0)

without_col_factor(h_lines, v_lines, rows, cols) ==
    calculate_confidence(h_lines, <<>>, rows,
                         IF Len(v_lines) < cols - 1 THEN 2 ELSE 1, 0, 0)

row_factor_skipped(c, h_lines, v_lines, rows, cols) ==
    confidence_is_exact(<<>>, v_lines, IF Len(h_lines) < rows - 1 THEN 2 ELSE 1, cols)
        => c = without_row_factor(h_lines, v_lines, rows, cols)

col_factor_skipped(c, h_lines, v_lines, rows, cols) ==
    confidence_is_exact(h_lines, <<>>, rows, IF Len(v_lines) < cols - 1 THEN 2 ELSE 1)
        => c = without_col_factor(h_lines, v_lines, rows, cols)

\* round(0.7^j * 0.5, 2) and round(0.7^j * 0.5 * 0.5, 2) in hundredths,
\* for j = 0, 1, 2 completeness penalties
halved_once == <<50, 35, 24>>
halved_twice == <<25, 17, 12>>

\* C20 as stated: calculate_confidence never raises, and for an axis with no
\* gaps, exactly one gap, or gaps whose mean is zero, the confidence is not
\* multiplied by any regularity factor for that axis, the other axis being
\* still evaluated.
C20_DegenerateSkipped ==
    Scored =>
        /\ out.value \in 0..100
        /\ (few_gaps(args[1]) \/ zero_mean(args[1]))
              => row_factor_skipped(out.value, args[1], args[2], args[3], args[4])
        /\ (few_gaps(args[2]) \/ zero_mean(args[2]))
              => col_factor_skipped(out.value, args[1], args[2], args[3], args[4])

\* C20 amended: calculate_confidence never raises and returns a number in
\* [0, 1]; for an axis with no gaps or exactly one gap the confidence is not
\* multiplied by any regularity factor for that axis; for an axis with two or
\* more gaps of mean zero the coefficient of variation is taken as 1 and the
\* confidence is multiplied by the floor 0.5; in each case the other axis is
\* still evaluated.
C20_DegenerateGuarded ==
    Scored =>
        /\ out.value \in 0..100
        /\ few_gaps(args[1])
              => row_factor_skipped(out.value, args[1], args[2], args[3], args[4])
        /\ few_gaps(args[2])
              => col_factor_skipped(out.value, args[1], args[2], args[3], args[4])
        /\ (zero_mean(args[1]) /\ few_gaps(args[2])) \/ (few_gaps(args[1]) /\ zero_mean(args[2]))
              => out.value =
                   halved_once[completeness_penalties(args[1], args[2], args[3], args[4]) + 1]
        /\ (zero_mean(args[1]) /\ zero_mean(args[2]))
              => out.value =
                   halved_twice[completeness_penalties(args[1], args[2], args[3], args[4]) + 1]

\* one gap on the rows axis, skipped, while the columns axis, of gaps of
\* mean zero, halves the confidence
C20_Witness ==
    /\ Scored
    /\ Len(args[1]) = 2
    /\ zero_mean(args[2])
    /\ out.value = 50


\* ---------------------------------------------------------------------
\* guess_grid_from_size on its own
\* ---------------------------------------------------------------------

MaxGuessSide == 12

\* small sides, and the sides of the sheets of the catalog's usual sizes
GuessSides == (1..MaxGuessSide) \cup {200, 800}

InitGuess ==
    /\ AnalysisIdle
    /\ ServiceIdle
    /\ fn = "guess_grid_from_size"
    /\ args \in GuessSides \X GuessSides
    /\ out = NoOut

CallGuessGridFromSize ==
    /\ fn = "guess_grid_from_size"
    /\ ~out.done
    /\ out' = [done |-> TRUE, value |-> guess_grid_from_size(args[1], args[2])]
    /\ UNCHANGED <<fn, args>>
    /\ UNCHANGED analysis_vars
    /\ UNCHANGED service_vars

NextGuess == CallGuessGridFromSize

SpecGuess == InitGuess /\ [][NextGuess]_vars

Guessed == fn = "guess_grid_from_size" /\ out.done

Catalog == { common_grids[i] : i \in 1..Len(common_grids) }

\* 0.5 <= (width / cols) / (height / rows) <= 2.0
cell_aspect_in_range(width, height, rows, cols) ==
    /\ RatLE(1, 2, width * rows, height * cols)
    /\ RatLE(width * rows, height * cols, 2, 1)

\* s = 1 - ((width mod cols) / width + (height mod rows) / height) / 2, that
\* is 2 * (1 - s) = (width mod cols) / width + (height mod rows) / height
is_divisibility_score(s, width, height, rows, cols) ==
    2 * (s.d - s.n) * width * height =
        s.d * ((width % cols) * height + (height % rows) * width)

divisibility_score(width, height, rows, cols) ==
    Rat(2 * width * height - (width % cols) * height - (height % rows) * width,
        2 * width * height)

score_le(a, b) == RatLE(a.n, a.d, b.n, b.d)

returned_grids(cands) == { <<cands[i].rows, cands[i].cols>> : i \in 1..Len(cands) }

\* the catalog entries that pass the aspect filter and were not returned
left_out(cands, width, height) ==
    { g \in Catalog \ returned_grids(cands) :
        cell_aspect_in_range(width, height, g[1], g[2]) }

top_of_catalog(cands, width, height) ==
    /\ Len(cands) <= 5
    /\ \A i \in 1..Len(cands) :
          /\ <<cands[i].rows, cands[i].cols>> \in Catalog
          /\ cell_aspect_in_range(width, height, cands[i].rows, cands[i].cols)
          /\ is_divisibility_score(cands[i].score, width, height,
                                   cands[i].rows, cands[i].cols)
    /\ \A i \in 1..(Len(cands) - 1) : score_le(cands[i + 1].score, cands[i].score)
    /\ \A g \in left_out(cands, width, height) : \A i \in 1..Len(cands) :
          score_le(divisibility_score(width, height, g[1], g[2]), cands[i].score)

\* C21: guess_grid_from_size returns at most 5 catalog entries, each with
\* cell aspect ratio (width/cols)/(height/rows) in [0.5, 2.0] and score =
\* 1 - ((width mod cols)/width + (height mod rows)/height)/2, ordered by
\* non-increasing score; no catalog entry that passes the aspect filter and
\* is left out has a score higher than a returned one.
C21_TopFive ==
    Guessed => top_of_catalog(out.value, args[1], args[2])

\* five entries of differing scores returned while a passing entry is left out
C21_Witness ==
    /\ Guessed
    /\ Len(out.value) = 5
    /\ left_out(out.value, args[1], args[2]) # {}
    /\ ~score_le(out.value[1].score, out.value[5].score)


\* ---------------------------------------------------------------------
\* the hypothesis held when the three sweeps are over
\* ---------------------------------------------------------------------

Nothing == [result |-> NoneResult, confidence |-> ZeroConf]

\* the runs in sweep order: 1-4 dark, 5-7 light, 8-10 edges
RunCount == Len(dark_thresholds) + Len(light_thresholds) + Len(edge_strengths)

\* what run k proposes on its own, or Nothing when the mode leaves its
\* strategy out or the run is not accepted as a candidate
run_alone(k, mode, hp, vp) ==
    IF k <= Len(dark_thresholds)
    THEN IF mode \in dark_modes
         THEN line_run(Nothing, hp, vp, dark_thresholds[k], TRUE, "dark_lines")
         ELSE Nothing
    ELSE IF k <= Len(dark_thresholds) + Len(light_thresholds)
    THEN IF mode \in light_modes
         THEN line_run(Nothing, hp, vp,
                       light_thresholds[k - Len(dark_thresholds)], FALSE, "light_lines")
         ELSE Nothing
    ELSE IF mode \in edge_modes
         THEN edge_run(Nothing, hp, vp,
                       edge_strengths[k - Len(dark_thresholds) - Len(light_thresholds)])
         ELSE Nothing

takes_part(b) == b.result.rows > 1 /\ b.result.cols > 1

\* run k is the earliest of the runs of maximal confidence
earliest_maximal(runs, k) ==
    /\ takes_part(runs[k])
    /\ \A j \in 1..RunCount :
          takes_part(runs[j]) =>
             /\ ~conf_gt(runs[j].confidence, runs[k].confidence)
             /\ j < k => conf_gt(runs[k].confidence, runs[j].confidence)

held_is_earliest_maximal(best, runs) ==
    IF \A k \in 1..RunCount : ~takes_part(runs[k])
    THEN best = Nothing
    ELSE \E k \in 1..RunCount : earliest_maximal(runs, k) /\ best = runs[k]

SweepsOver == pc = "guess" /\ ~EmptyProjection

\* C22: before the size-guess step the hypothesis held is the earliest one,
\* in the sweep order dark {0.2,0.3,0.4,0.5}, light {0.3,0.4,0.5}, edges
\* {20,30,40}, among the runs with rows > 1 and cols > 1 whose confidence
\* (scorer value, times 0.9 for edge runs) is maximal; runs with rows <= 1 or
\* cols <= 1 never take part.  The held hypothesis is thus a function of the
\* set of runs alone (maximal confidence, then least position), whatever the
\* order in which they are evaluated.
C22_EarliestMaximal ==
    SweepsOver =>
        \A runs \in { [k \in 1..RunCount |->
                         run_alone(k, detection_mode, horizontal_projection,
                                   vertical_projection)] } :
            held_is_earliest_maximal(Best, runs)

\* two runs that propose different hypotheses tie at the maximal confidence,
\* and the earlier one is held
C22_Witness ==
    /\ SweepsOver
    /\ \E runs \in { [k \in 1..RunCount |->
                         run_alone(k, detection_mode, horizontal_projection,
                                   vertical_projection)] } :
          \E j, k \in 1..RunCount :
             /\ j < k
             /\ earliest_maximal(runs, j)
             /\ takes_part(runs[k])
             /\ ~conf_gt(runs[j].confidence, runs[k].confidence)
             /\ runs[j] # runs[k]
             /\ Best = runs[j]


\* ---------------------------------------------------------------------
\* coordinates of a downscaled analysis
\* ---------------------------------------------------------------------

Downscaled == scale_factor.n # scale_factor.d

ReturnedDownscaled == pc = "done" /\ ret.kind = "return" /\ Downscaled

\* the integer part of x * scale for x >= 0
trunc_scaled(x, scale) ==
    CHOOSE k \in 0..(x * scale.n) : k * scale.d <= x * scale.n /\ x * scale.n < (k + 1) * scale.d

rescaled(returned, winning, scale) ==
    /\ Len(returned) = Len(winning)
    /\ \A i \in 1..Len(winning) :
          returned[i] = << trunc_scaled(winning[i][1], scale),
                           trunc_scaled(winning[i][2], scale) >>

valid_intervals(lines, length) ==
    /\ \A i \in 1..Len(lines) :
          /\ 0 <= lines[i][1]
          /\ lines[i][1] < lines[i][2]
          /\ lines[i][2] <= length
    /\ \A i \in 1..(Len(lines) - 1) :
          /\ lines[i][1] < lines[i + 1][1]
          /\ lines[i][2] <= lines[i + 1][1]

\* C23: when the image was downscaled, every returned interval is
\* (trunc(s * scale), trunc(e * scale)) of a winning interval (s, e), and the
\* returned horizontal_lines and vertical_lines are valid intervals in
\* original coordinates: sorted, pairwise disjoint, with
\* 0 <= start < end <= original height (resp. original width).
C23_RescaledIntervals ==
    ReturnedDownscaled =>
        /\ rescaled(ret.horizontal_lines, best_result.h_lines, scale_factor)
        /\ rescaled(ret.vertical_lines, best_result.v_lines, scale_factor)
        /\ valid_intervals(ret.horizontal_lines, original_size[2])
        /\ valid_intervals(ret.vertical_lines, original_size[1])

\* lines on both axes, a position that the scale takes to a non-integer,
\* and an interval that ends at the original width
C23_Witness ==
    /\ ReturnedDownscaled
    /\ ret.horizontal_lines # <<>>
    /\ ret.vertical_lines # <<>>
    /\ \E i \in 1..Len(best_result.v_lines) :
          (best_result.v_lines[i][1] * scale_factor.n) % scale_factor.d # 0
    /\ ret.vertical_lines[Len(ret.vertical_lines)][2] = original_size[1]


\* ---------------------------------------------------------------------
\* the downscaled size
\* ---------------------------------------------------------------------

\* a decoded image with sides >= 1 of which one exceeds the cap
Oversized(im) ==
    /\ im.decodable
    /\ im.width >= 1
    /\ im.height >= 1
    /\ (im.width > 1000 \/ im.height > 1000)

larger_side(size) == IF size[1] >= size[2] THEN size[1] ELSE size[2]

\* C24: for every image with width >= 1 and height >= 1 in which a side
\* exceeds 1000, the downscaled size (trunc(width * ratio), trunc(height *
\* ratio)) with ratio = min(1000 / width, 1000 / height) has its larger side
\* equal to 1000 and both sides >= 1, so both projections are non-empty and
\* the analysis proceeds without error.
C24_DownscaleProceeds ==
    (pc # "load" /\ Oversized(image_input)) =>
        /\ larger_side(new_size(image_input.width, image_input.height)) = 1000
        /\ new_size(image_input.width, image_input.height)[1] >= 1
        /\ new_size(image_input.width, image_input.height)[2] >= 1
        /\ pc # "raised"
        /\ Len(horizontal_projection.sum) >= 1
        /\ Len(vertical_projection.sum) >= 1


\* ---------------------------------------------------------------------
\* shape of the returned grid
\* ---------------------------------------------------------------------

is_default(r) ==
    /\ r.rows = 1
    /\ r.cols = 1
    /\ r.detection_method = "none"
    /\ r.confidence.n = 0

is_grid(r) ==
    /\ r.rows >= 2
    /\ r.cols >= 2
    /\ r.confidence.n > 0
    /\ r.confidence.d > 0

\* C25: every result of analyze_spritesheet is either the default (rows = 1,
\* cols = 1, detection_method = 'none', confidence = 0) or has rows >= 2 and
\* cols >= 2 with confidence > 0; a grid with exactly one row or exactly one
\* column and more than one cell is never returned, and detection_method =
\* 'none' holds iff rows = cols = 1.
C25_DefaultOrGrid ==
    Returned =>
        /\ is_default(ret) \/ is_grid(ret)
        /\ ~(ret.rows = 1 /\ ret.cols > 1)
        /\ ~(ret.cols = 1 /\ ret.rows > 1)
        /\ (ret.detection_method = "none") <=> (ret.rows = 1 /\ ret.cols = 1)

\* the default is returned for an image in which an edge run found edges
\* on one axis only
C25_Witness ==
    /\ Returned
    /\ is_default(ret)
    /\ detection_mode = "edges"
    /\ \E i \in 1..Len(edge_strengths) : edge_run_misses_axis(i)


\* ---------------------------------------------------------------------
\* completeness of the candidates that are scored
\* ---------------------------------------------------------------------

\* h and v, as the periodicity filter returned them with lines as lists of
\* intervals, are passed to calculate_confidence
passed_to_scorer(h, v) == h.cells > 1 /\ v.cells > 1

\* no axis has fewer lines than expected, and the score is the one that the
\* regularity of the gaps alone gives
complete_candidate(h_lines, v_lines, rows, cols) ==
    /\ Len(h_lines) >= rows - 1
    /\ Len(v_lines) >= cols - 1
    /\ completeness_penalties(h_lines, v_lines, rows, cols) = 0
    /\ calculate_confidence(h_lines, v_lines, rows, cols, 0, 0)
         = calculate_confidence(h_lines, v_lines, 1, 1, 0, 0)

complete_if_passed(h_lines, v_lines, rows, cols) ==
    (rows > 1 /\ cols > 1) => complete_candidate(h_lines, v_lines, rows, cols)

complete_line_run(h, v) == complete_if_passed(h.lines, v.lines, h.cells, v.cells)

complete_edge_run(h, v) ==
    complete_if_passed(edges_as_lines(h.edges), edges_as_lines(v.edges),
                       h.cells, v.cells)

\* C26: for every candidate that analyze_spritesheet passes to
\* calculate_confidence (dark-line, light-line or edge run), the number of
\* lines on each axis is at least rows - 1 (resp. cols - 1), so the 0.7
\* completeness penalty is never applied inside analyze_spritesheet and the
\* candidate's confidence depends only on gap regularity (and the 0.9 edge
\* discount).
C26_NoCompletenessPenalty ==
    SweepsOver =>
        /\ \A i \in 1..Len(dark_thresholds) :
              complete_line_run(
                  periodic_lines_of(horizontal_projection, dark_thresholds[i], TRUE),
                  periodic_lines_of(vertical_projection, dark_thresholds[i], TRUE))
        /\ \A i \in 1..Len(light_thresholds) :
              complete_line_run(
                  periodic_lines_of(horizontal_projection, light_thresholds[i], FALSE),
                  periodic_lines_of(vertical_projection, light_thresholds[i], FALSE))
        /\ \A i \in 1..Len(edge_strengths) :
              complete_edge_run(
                  periodic_edges_of(horizontal_projection, edge_strengths[i]),
                  periodic_edges_of(vertical_projection, edge_strengths[i]))

kept_as_many_as_cells(h, v) ==
    /\ passed_to_scorer(h, v)
    /\ Len(h.edges) = h.cells
    /\ Len(v.edges) = v.cells

\* an edge run is scored with as many edges as cells on both axes, and the
\* hypothesis it proposed is held with nine tenths of the score of its gaps
C26_Witness ==
    /\ SweepsOver
    /\ best_result.method = "edges"
    /\ \E i \in 1..Len(edge_strengths) :
          kept_as_many_as_cells(
              periodic_edges_of(horizontal_projection, edge_strengths[i]),
              periodic_edges_of(vertical_projection, edge_strengths[i]))
    /\ best_confidence =
          edge_confidence(calculate_confidence(best_result.h_lines,
                                               best_result.v_lines, 1, 1, 0, 0))


\* ---------------------------------------------------------------------
\* a size guess that replaces a detector hypothesis
\* ---------------------------------------------------------------------

\* the step of the size guess, taken with a detector hypothesis held and
\* ending with the guess held
guess_replaces ==
    /\ pc = "guess"
    /\ best_result.method \in Detectors
    /\ best_result'.method = "guess"

\* what the call returns from the hypothesis held after the step
returned_after == result_of(or_default(Best'), scale_factor, original_size)

replaced_for_better ==
    /\ conf_gt(best_confidence, ZeroConf)
    /\ conf_lt_half(best_confidence)
    /\ conf_gt(best_confidence', best_confidence)
    /\ returned_after.confidence = best_confidence'
    /\ returned_after.horizontal_lines = <<>>
    /\ returned_after.vertical_lines = <<>>
    /\ returned_after.margin = 2
    /\ returned_after.line_width = 20

\* C27: whenever the size guess replaces a detector hypothesis that was
\* already found (detector confidence in (0, 0.5)), the returned confidence
\* is strictly greater than the replaced hypothesis's confidence, the
\* returned line lists are empty, and the returned margin is 2 and
\* line_width is 2 (20 tenths).
C27_GuessReplacesForBetter ==
    [][guess_replaces => replaced_for_better]_vars

\* the call has returned a guess although its dark-line sweep had found a
\* grid with lines on both axes
C27_Witness ==
    /\ Returned
    /\ detection_mode = "auto"
    /\ ret.detection_method = "guess"
    /\ ret.margin = 2
    /\ line_sweep(Nothing, horizontal_projection, vertical_projection,
                  dark_thresholds, TRUE, "dark_lines").result.h_lines # <<>>


\* ---------------------------------------------------------------------
\* web/coupons.py
\* ---------------------------------------------------------------------

MaxCalls == 3
MaxUsageLimit == 2

\* a code is its sequence of characters; NoRow is the None of fetchone()
\* finding no row (ids start at 1); expires_at 0 is SQL NULL
NoRow == [id |-> 0]

RECURSIVE lstrip(_)
lstrip(s) == IF s # <<>> /\ Head(s) = " " THEN lstrip(Tail(s)) ELSE s

RECURSIVE rstrip(_)
rstrip(s) ==
    IF s # <<>> /\ s[Len(s)] = " " THEN rstrip(SubSeq(s, 1, Len(s) - 1)) ELSE s

\* (code or "").strip()
strip(code) == rstrip(lstrip(code))

\* _utc_now() of the calls in flight: they run within the same second
utc_now == 2

StoredCode == <<"A">>

CouponRows ==
    { [id |-> 1, code |-> StoredCode, status |-> s, usage_limit |-> l,
       usage_count |-> n, expires_at |-> e] :
         s \in {"active", "disabled"}, l \in 0..MaxUsageLimit,
         n \in 0..MaxUsageLimit, e \in {0, 1} }

\* SELECT ... WHERE code=%s; fetchone()
RECURSIVE fetchone(_, _, _)
fetchone(table, code, i) ==
    IF i > Len(table) THEN NoRow
    ELSE IF table[i].code = code THEN table[i]
    ELSE fetchone(table, code, i + 1)

\* the checks of consume_coupon on the row it read: the message of the
\* CouponError raised, or "" when the row may be consumed
refusal(row, now) ==
    IF row = NoRow THEN "not found"
    ELSE IF row.status # "active" THEN "disabled"
    ELSE IF row.expires_at # 0 /\ row.expires_at <= now THEN "expired"
    ELSE IF row.usage_count >= row.usage_limit THEN "used up"
    ELSE ""

\* variant: the UPDATE without its usage_count < usage_limit condition
increment_unguarded(table, id) ==
    [rows |-> [i \in DOMAIN table |->
                 IF table[i].id = id
                 THEN [table[i] EXCEPT !.usage_count = @ + 1]
                 ELSE table[i]],
     rowcount |-> Cardinality({i \in DOMAIN table : table[i].id = id})]

\* UPDATE ... SET usage_count = usage_count + 1
\* WHERE id = %s AND usage_count < usage_limit: one statement, applied
\* atomically by the server; rowcount is the number of rows it changed
increment_guarded(table, id) ==
    [rows |-> [i \in DOMAIN table |->
                 IF table[i].id = id /\ table[i].usage_count < table[i].usage_limit
                 THEN [table[i] EXCEPT !.usage_count = @ + 1]
                 ELSE table[i]],
     rowcount |-> Cardinality({i \in DOMAIN table :
                                 /\ table[i].id = id
                                 /\ table[i].usage_count < table[i].usage_limit})]

\* UPDATE ... SET usage_count = GREATEST(usage_count - 1, 0) WHERE id = %s
decrement_clamped(table, id) ==
    [i \in DOMAIN table |->
       IF table[i].id = id
       THEN [table[i] EXCEPT !.usage_count = Max(@ - 1, 0)]
       ELSE table[i]]

\* the kinds of call, in a fixed order: calls of the same kind are
\* interchangeable, so a run lists its calls in this order
CallKinds ==
    << [op |-> "consume", arg |-> <<>>],
       [op |-> "consume", arg |-> <<" ", "A", " ">>],
       [op |-> "consume", arg |-> <<"B">>],
       [op |-> "refund", arg |-> 0],
       [op |-> "refund", arg |-> 1] >>

NewCall(k) ==
    [op |-> CallKinds[k].op, arg |-> CallKinds[k].arg, pc |-> "start",
     row |-> NoRow, raised |-> ""]

InitCoupons ==
    /\ AnalysisIdle
    /\ HarnessIdle
    /\ CliIdle
    /\ AppIdle
    /\ \E row \in CouponRows :
          /\ row.usage_count <= row.usage_limit
          /\ coupon_table = <<row>>
    /\ \E kinds \in [1..MaxCalls -> DOMAIN CallKinds] :
          /\ \A c \in 1..(MaxCalls - 1) : kinds[c] <= kinds[c + 1]
          /\ coupon_calls = [c \in 1..MaxCalls |-> NewCall(kinds[c])]

\* the call after row = cursor.fetchone() and the four checks
checked(call, row, now) ==
    IF refusal(row, now) # ""
    THEN [call EXCEPT !.pc = "raised", !.row = row, !.raised = refusal(row, now)]
    ELSE [call EXCEPT !.pc = "update", !.row = row]

\* code = (code or "").strip(); the SELECT; the checks on the row read
ConsumeSelect(c) ==
    /\ coupon_calls[c].op = "consume"
    /\ coupon_calls[c].pc = "start"
    /\ coupon_calls' =
          [coupon_calls EXCEPT ![c] =
             IF strip(@.arg) = <<>>
             THEN [@ EXCEPT !.pc = "raised", !.raised = "no code"]
             ELSE checked(@, fetchone(coupon_table, strip(@.arg), 1), utc_now)]
    /\ UNCHANGED coupon_table
    /\ UNCHANGED <<cli_vars, app_vars>>
    /\ UNCHANGED analysis_vars
    /\ UNCHANGED harness_vars

\* the UPDATE; if cursor.rowcount == 0: raise; row["usage_count"] += 1; return
ConsumeUpdate(c) ==
    /\ coupon_calls[c].op = "consume"
    /\ coupon_calls[c].pc = "update"
    /\ coupon_table' = increment_guarded(coupon_table, coupon_calls[c].row.id).rows
    /\ coupon_calls' =
          [coupon_calls EXCEPT ![c] =
             IF increment_guarded(coupon_table, @.row.id).rowcount = 0
             THEN [@ EXCEPT !.pc = "raised", !.raised = "used up"]
             ELSE [@ EXCEPT !.pc = "returned", !.row.usage_count = @ + 1]]
    /\ UNCHANGED <<cli_vars, app_vars>>
    /\ UNCHANGED analysis_vars
    /\ UNCHANGED harness_vars

\* refund_coupon_usage: nothing for a falsy id, else the clamped UPDATE
Refund(c) ==
    /\ coupon_calls[c].op = "refund"
    /\ coupon_calls[c].pc = "start"
    /\ coupon_table' =
          IF coupon_calls[c].arg = 0 THEN coupon_table
          ELSE decrement_clamped(coupon_table, coupon_calls[c].arg)
    /\ coupon_calls' = [coupon_calls EXCEPT ![c].pc = "returned"]
    /\ UNCHANGED <<cli_vars, app_vars>>
    /\ UNCHANGED analysis_vars
    /\ UNCHANGED harness_vars

\* except Exception: the connection or the statement failed; the error is
\* logged and the row is as it was
RefundFails(c) ==
    /\ coupon_calls[c].op = "refund"
    /\ coupon_calls[c].pc = "start"
    /\ coupon_calls[c].arg # 0
    /\ coupon_calls' = [coupon_calls EXCEPT ![c].pc = "returned",
                                            ![c].raised = "logged"]
    /\ UNCHANGED coupon_table
    /\ UNCHANGED <<cli_vars, app_vars>>
    /\ UNCHANGED analysis_vars
    /\ UNCHANGED harness_vars

NextCoupons ==
    \/ \E c \in 1..MaxCalls : ConsumeSelect(c)
    \/ \E c \in 1..MaxCalls : ConsumeUpdate(c)
    \/ \E c \in 1..MaxCalls : Refund(c)
    \/ \E c \in 1..MaxCalls : RefundFails(c)

SpecCoupons == InitCoupons /\ [][NextCoupons]_vars

\* the stored row of the coupon
stored == coupon_table[1]

within_limit == 0 <= stored.usage_count /\ stored.usage_count <= stored.usage_limit

\* call c is a consume_coupon call that takes a step
consume_steps(c) ==
    /\ coupon_calls # <<>>
    /\ coupon_calls[c].op = "consume"
    /\ coupon_calls'[c] # coupon_calls[c]

\* the step that returns adds one; every other step of the call adds nothing
adds_one_iff_returns(c) ==
    IF coupon_calls'[c].pc = "returned"
    THEN coupon_table'[1].usage_count = stored.usage_count + 1
    ELSE coupon_table'[1].usage_count = stored.usage_count

\* C28: for a coupon row that starts with 0 <= usage_count <= usage_limit,
\* every interleaving of concurrent consume_coupon and refund_coupon_usage
\* calls keeps 0 <= usage_count <= usage_limit in the stored row; a
\* consume_coupon call that raises CouponError leaves usage_count
\* unchanged, and a call that returns has increased it by exactly 1.
C28_CountWithinLimit ==
    /\ [](coupon_table # <<>> => within_limit)
    /\ [][\A c \in 1..MaxCalls : consume_steps(c) => adds_one_iff_returns(c)]_vars

\* two calls read the last free use; one returned, the other found
\* rowcount 0 and raised
C28_Witness ==
    /\ coupon_table # <<>>
    /\ stored.usage_count = stored.usage_limit
    /\ \E c, d \in 1..MaxCalls :
          /\ coupon_calls[c].pc = "returned"
          /\ coupon_calls[c].op = "consume"
          /\ coupon_calls[d].pc = "raised"
          /\ coupon_calls[d].row # NoRow
          /\ refusal(coupon_calls[d].row, utc_now) = ""


\* ---------------------------------------------------------------------
\* slice_spritesheet.py, make_gif.py, cli/run.py: slice, then make the GIF
\* ---------------------------------------------------------------------

MaxGifRows == 2
MaxGifCols == 3
MaxRuns == 2

\* a file name is its sequence of characters.  The characters that occur,
\* in the order of their code points: Python compares strings by code point
Alphabet ==
    << ".", "0", "1", "2", "3", "4", "5", "6", "7", "8", "9", "_",
       "a", "e", "f", "g", "m", "n", "o", "p", "r", "s", "t", "x" >>

ord(ch) == CHOOSE i \in DOMAIN Alphabet : Alphabet[i] = ch

\* a < b for two str
RECURSIVE str_lt(_, _, _)
str_lt(a, b, i) ==
    IF i > Len(b) THEN FALSE
    ELSE IF i > Len(a) THEN TRUE
    ELSE IF a[i] # b[i] THEN ord(a[i]) < ord(b[i])
    ELSE str_lt(a, b, i + 1)

\* the decimal digits of count >= 0
RECURSIVE digits_of(_)
digits_of(count) ==
    IF count < 10 THEN <<Alphabet[count + 2]>>
    ELSE Append(digits_of(count \div 10), Alphabet[(count % 10) + 2])

\* f"{count:02d}": at least two digits, padded with zeros
format_02d(count) ==
    IF Len(digits_of(count)) < 2 THEN <<"0">> \o digits_of(count)
    ELSE digits_of(count)

\* f"frame_{count:02d}.png"
frame_filename(count) ==
    <<"f", "r", "a", "m", "e", "_">> \o format_02d(count) \o <<".", "p", "n", "g">>

\* f.endswith(".png")
endswith_png(f) ==
    Len(f) >= 4 /\ SubSeq(f, Len(f) - 3, Len(f)) = <<".", "p", "n", "g">>

\* the frame cropped from cell (r, c) of a rows x cols slicing of an image
cell_of(image, rows, cols, r, c) ==
    [image |-> image, rows |-> rows, cols |-> cols, r |-> r, c |-> c]

\* the files written by the double loop, in the order written: count runs
\* from 1 over the rows and, within a row, over the columns
write_order(image, rows, cols) ==
    [count \in 1..(rows * cols) |->
       [name |-> frame_filename(count),
        frame |-> cell_of(image, rows, cols,
                          (count - 1) \div cols, (count - 1) % cols)]]

\* the folder after the frames are saved into it: a file that was there
\* under a written name is overwritten, every other file stays
saved_into(files, written) ==
    [f \in DOMAIN files \cup {written[i].name : i \in DOMAIN written} |->
       IF \E i \in DOMAIN written : written[i].name = f
       THEN (CHOOSE w \in {written[i] : i \in DOMAIN written} : w.name = f).frame
       ELSE files[f]]

\* sorted(names): the name at place i has i - 1 names before it
in_rank_order(rank) ==
    [i \in 1..Cardinality(DOMAIN rank) |->
       CHOOSE f \in DOMAIN rank : rank[f] = i - 1]

sorted(names) ==
    in_rank_order([f \in names |->
                     Cardinality({g \in names : str_lt(g, f, 1)})])

\* sorted([f for f in os.listdir(frames_folder) if f.endswith(".png")])
png_filenames(files) == sorted({f \in DOMAIN files : endswith_png(f)})

\* images[0].save(..., append_images=images[1:]): the frames of the GIF
gif_frames(files, filenames) ==
    [i \in DOMAIN filenames |-> files[filenames[i]]]

NoFolder == [exists |-> FALSE, files |-> <<>>]

\* what the frames folder may hold before the first run
PriorFolders ==
    { NoFolder,
      [exists |-> TRUE, files |-> <<>>],
      [exists |-> TRUE,
       files |-> [f \in {<<"n", "o", "t", "e", "s", ".", "t", "x", "t">>} |->
                    "text"]] }

SheetNames == {"a.png", "b.png"}

\* the grids asked for: small ones and one of a hundred cells
Grids == ((1..MaxGifRows) \X (1..MaxGifCols)) \cup {<<10, 10>>}

NewRun(n, image, grid) ==
    [pc |-> "slice", run |-> n, image |-> image, rows |-> grid[1],
     cols |-> grid[2], written |-> <<>>, gif |-> <<>>]

InitGif ==
    /\ AnalysisIdle
    /\ HarnessIdle
    /\ CouponsIdle
    /\ AppIdle
    /\ frames_folder \in PriorFolders
    /\ cli \in {NewRun(1, image, grid) : image \in SheetNames, grid \in Grids}

\* slice_spritesheet(image_path, output_folder, rows, cols, margin): makes
\* the folder if it is missing and saves the rows * cols frames
SliceSpritesheet ==
    /\ cli # <<>>
    /\ cli.pc = "slice"
    /\ frames_folder' =
          [exists |-> TRUE,
           files |-> saved_into(frames_folder.files,
                                write_order(cli.image, cli.rows, cli.cols))]
    /\ cli' = [cli EXCEPT !.pc = "gif",
                          !.written = write_order(cli.image, cli.rows, cli.cols)]
    /\ UNCHANGED <<coupon_vars, app_vars>>
    /\ UNCHANGED analysis_vars
    /\ UNCHANGED harness_vars

\* create_gif(frames_folder, output_gif_name, duration)
CreateGif ==
    /\ cli # <<>>
    /\ cli.pc = "gif"
    /\ cli' = [cli EXCEPT !.pc = "ask",
                          !.gif = gif_frames(frames_folder.files,
                                             png_filenames(frames_folder.files))]
    /\ UNCHANGED frames_folder
    /\ UNCHANGED <<coupon_vars, app_vars>>
    /\ UNCHANGED analysis_vars
    /\ UNCHANGED harness_vars

\* the user has the temporary frames deleted: shutil.rmtree(frames_folder)
RemoveFrames ==
    /\ cli # <<>>
    /\ cli.pc = "ask"
    /\ frames_folder' = NoFolder
    /\ cli' = [cli EXCEPT !.pc = "end"]
    /\ UNCHANGED <<coupon_vars, app_vars>>
    /\ UNCHANGED analysis_vars
    /\ UNCHANGED harness_vars

\* the user keeps them
KeepFrames ==
    /\ cli # <<>>
    /\ cli.pc = "ask"
    /\ cli' = [cli EXCEPT !.pc = "end"]
    /\ UNCHANGED frames_folder
    /\ UNCHANGED <<coupon_vars, app_vars>>
    /\ UNCHANGED analysis_vars
    /\ UNCHANGED harness_vars

\* the user goes on with another image: main() again, the same folder name
Again ==
    /\ cli # <<>>
    /\ cli.pc = "end"
    /\ cli.run < MaxRuns
    /\ \E image \in SheetNames, grid \in Grids :
          cli' = NewRun(cli.run + 1, image, grid)
    /\ UNCHANGED frames_folder
    /\ UNCHANGED <<coupon_vars, app_vars>>
    /\ UNCHANGED analysis_vars
    /\ UNCHANGED harness_vars

NextGif ==
    \/ SliceSpritesheet
    \/ CreateGif
    \/ RemoveFrames
    \/ KeepFrames
    \/ Again

SpecGif == InitGif /\ [][NextGif]_vars

\* the GIF was made from the folder the run sliced into
GifMade == cli # <<>> /\ cli.pc \in {"ask", "end"}

\* the frames of the run's slice, in the order they were written
frames_written == [i \in DOMAIN cli.written |-> cli.written[i].frame]

\* C29: after slicing an image into a frames folder and then running
\* create_gif on that folder, for any rows, cols and any prior contents of
\* the folder, the GIF's frame sequence is exactly the rows * cols frames
\* written by that slice, in the row-major order in which they were written.
C29_GifIsTheSlice == GifMade => cli.gif = frames_written


\* the two ways the GIF differs from the slice: a frame of an earlier,
\* larger slice is still in the folder; frame_100.png sorts before
\* frame_11.png
stale_frame_in_gif ==
    /\ GifMade
    /\ Len(cli.gif) > Len(cli.written)

hundredth_frame_early ==
    /\ GifMade
    /\ Len(cli.gif) = Len(cli.written)
    /\ Len(cli.written) = 100
    /\ cli.gif[11] = cli.written[100].frame


\* ---------------------------------------------------------------------
\* web/app.py: /api/analyze, /api/convert, /api/download, /api/preview and
\* the cleanup thread.  app.run serves each request on a thread of its
\* own, so the handlers interleave at their file operations.
\* ---------------------------------------------------------------------

MaxRequests == 3

\* data_folder maps a path <<folder, task_id>> to the file there: whether
\* its mtime is older than FILE_MAX_AGE, and what it holds
File(content) == [old |-> FALSE, content |-> content]

exists(path) == path \in DOMAIN data_folder

\* open(path, 'wb').write(...) and the like: the file is there, just modified
write_file(files, path, content) ==
    [p \in DOMAIN files \cup {path} |->
       IF p = path THEN File(content) ELSE files[p]]

\* os.remove(path) of a file that is there
remove_file(files, path) == [p \in DOMAIN files \ {path} |-> files[p]]

\* the uploads: a sprite sheet, a file that is no image, a name without an
\* allowed extension
Uploads == {"sheet", "broken", "noext"}

\* rows as sent to /api/convert: a grid, a negative number, nothing
ConvertRows == {2, -1, 0}

NoRequest == [route |-> "", file_id |-> 0, rows |-> 0, pc |-> "idle", status |-> 0]

\* the request answered with a status code
respond(req, code) == [req EXCEPT !.pc = "done", !.status = code]

\* the file_ids the clients hold: those of the successful analyses
known_ids ==
    {r \in 1..MaxRequests :
       requests[r].route = "analyze" /\ requests[r].status = 200}

InitApp ==
    /\ AnalysisIdle
    /\ HarnessIdle
    /\ CouponsIdle
    /\ CliIdle
    /\ data_folder = <<>>
    /\ requests = [r \in 1..MaxRequests |-> NoRequest]

\* POST /api/analyze: the task id is new (a time stamp and a uuid), here the
\* number of the request
Analyze(r) ==
    /\ requests[r].pc = "idle"
    /\ \E upload \in Uploads :
          IF upload = "noext"
          THEN /\ requests' = [requests EXCEPT ![r] =
                                 respond([@ EXCEPT !.route = "analyze"], 400)]
               /\ UNCHANGED data_folder
          ELSE IF upload = "broken"
          THEN /\ requests' = [requests EXCEPT ![r] =
                                 respond([@ EXCEPT !.route = "analyze"], 500)]
               /\ data_folder' = write_file(data_folder, <<"originals", r>>, upload)
          ELSE /\ requests' = [requests EXCEPT ![r] =
                                 respond([@ EXCEPT !.route = "analyze",
                                                   !.file_id = r], 200)]
               /\ data_folder' =
                     write_file(write_file(write_file(data_folder,
                                   <<"originals", r>>, upload),
                                   <<"temp", r>>, upload),
                                   <<"meta", r>>, "whole")
    /\ UNCHANGED coupon_vars
    /\ UNCHANGED cli_vars
    /\ UNCHANGED analysis_vars
    /\ UNCHANGED harness_vars

\* POST /api/convert up to if not os.path.exists(temp_path)
ConvertCheck(r) ==
    /\ requests[r].pc = "idle"
    /\ \E id \in known_ids, rows \in ConvertRows :
          requests' =
             [requests EXCEPT ![r] =
                IF rows = 0
                THEN respond([@ EXCEPT !.route = "convert", !.file_id = id], 400)
                ELSE IF ~exists(<<"temp", id>>)
                THEN respond([@ EXCEPT !.route = "convert", !.file_id = id,
                                       !.rows = rows], 404)
                ELSE [@ EXCEPT !.route = "convert", !.file_id = id,
                               !.rows = rows, !.pc = "slice"]]
    /\ UNCHANGED data_folder
    /\ UNCHANGED coupon_vars
    /\ UNCHANGED cli_vars
    /\ UNCHANGED analysis_vars
    /\ UNCHANGED harness_vars

\* os.makedirs(frames_dir); slice_spritesheet; slice_spritesheet_to_frames;
\* create_gif_from_frames; the GIF is written.  Image.open raises when the
\* temp upload is gone, create_gif_from_frames when there is no frame
ConvertSlice(r) ==
    /\ requests[r].pc = "slice"
    /\ IF ~exists(<<"temp", requests[r].file_id>>) \/ requests[r].rows < 0
       THEN /\ requests' = [requests EXCEPT ![r] = respond(@, 500)]
            /\ data_folder' =
                  IF exists(<<"frames", requests[r].file_id>>) THEN data_folder
                  ELSE write_file(data_folder, <<"frames", requests[r].file_id>>, 0)
       ELSE /\ requests' = [requests EXCEPT ![r].pc = "remove"]
            /\ data_folder' =
                  write_file(write_file(data_folder,
                                <<"frames", requests[r].file_id>>, requests[r].rows),
                                <<"gifs", requests[r].file_id>>, requests[r].rows)
    /\ UNCHANGED coupon_vars
    /\ UNCHANGED cli_vars
    /\ UNCHANGED analysis_vars
    /\ UNCHANGED harness_vars

\* try: os.remove(temp_path) except Exception: pass
ConvertRemove(r) ==
    /\ requests[r].pc = "remove"
    /\ data_folder' = remove_file(data_folder, <<"temp", requests[r].file_id>>)
    /\ requests' = [requests EXCEPT ![r].pc = "meta"]
    /\ UNCHANGED coupon_vars
    /\ UNCHANGED cli_vars
    /\ UNCHANGED analysis_vars
    /\ UNCHANGED harness_vars

\* if os.path.exists(meta_path): metadata = json.load(f): a file that
\* another request is writing does not parse
ConvertMetaLoad(r) ==
    /\ requests[r].pc = "meta"
    /\ requests' =
          [requests EXCEPT ![r] =
             IF ~exists(<<"meta", @.file_id>>) THEN respond(@, 200)
             ELSE IF data_folder[<<"meta", @.file_id>>].content # "whole"
             THEN respond(@, 500)
             ELSE [@ EXCEPT !.pc = "meta_open"]]
    /\ UNCHANGED data_folder
    /\ UNCHANGED coupon_vars
    /\ UNCHANGED cli_vars
    /\ UNCHANGED analysis_vars
    /\ UNCHANGED harness_vars

\* save_metadata: open(meta_path, 'w') truncates the file
ConvertMetaOpen(r) ==
    /\ requests[r].pc = "meta_open"
    /\ data_folder' = write_file(data_folder, <<"meta", requests[r].file_id>>,
                                 "partial")
    /\ requests' = [requests EXCEPT ![r].pc = "meta_dump"]
    /\ UNCHANGED coupon_vars
    /\ UNCHANGED cli_vars
    /\ UNCHANGED analysis_vars
    /\ UNCHANGED harness_vars

\* json.dump(metadata, f); the response
ConvertMetaDump(r) ==
    /\ requests[r].pc = "meta_dump"
    /\ data_folder' = write_file(data_folder, <<"meta", requests[r].file_id>>,
                                 "whole")
    /\ requests' = [requests EXCEPT ![r] = respond(@, 200)]
    /\ UNCHANGED coupon_vars
    /\ UNCHANGED cli_vars
    /\ UNCHANGED analysis_vars
    /\ UNCHANGED harness_vars

\* GET /api/download/<task_id> and GET /api/preview/<task_id>: rows holds
\* the GIF sent
send_gif(req, route, id) ==
    IF exists(<<"gifs", id>>)
    THEN respond([req EXCEPT !.route = route, !.file_id = id,
                             !.rows = data_folder[<<"gifs", id>>].content], 200)
    ELSE respond([req EXCEPT !.route = route, !.file_id = id], 404)

Download(r) ==
    /\ requests[r].pc = "idle"
    /\ \E id \in known_ids :
          requests' = [requests EXCEPT ![r] = send_gif(@, "download", id)]
    /\ UNCHANGED data_folder
    /\ UNCHANGED coupon_vars
    /\ UNCHANGED cli_vars
    /\ UNCHANGED analysis_vars
    /\ UNCHANGED harness_vars

Preview(r) ==
    /\ requests[r].pc = "idle"
    /\ \E id \in known_ids :
          requests' = [requests EXCEPT ![r] = send_gif(@, "preview", id)]
    /\ UNCHANGED data_folder
    /\ UNCHANGED coupon_vars
    /\ UNCHANGED cli_vars
    /\ UNCHANGED analysis_vars
    /\ UNCHANGED harness_vars

\* FILE_MAX_AGE passes: every file that is there is older than it
Expire ==
    /\ data_folder # <<>>
    /\ \E p \in DOMAIN data_folder : ~data_folder[p].old
    /\ data_folder' = [p \in DOMAIN data_folder |->
                         [data_folder[p] EXCEPT !.old = TRUE]]
    /\ UNCHANGED requests
    /\ UNCHANGED coupon_vars
    /\ UNCHANGED cli_vars
    /\ UNCHANGED analysis_vars
    /\ UNCHANGED harness_vars

\* cleanup_old_files: one os.remove / shutil.rmtree of an expired item
Cleanup ==
    /\ \E p \in DOMAIN data_folder :
          /\ data_folder[p].old
          /\ data_folder' = remove_file(data_folder, p)
    /\ UNCHANGED requests
    /\ UNCHANGED coupon_vars
    /\ UNCHANGED cli_vars
    /\ UNCHANGED analysis_vars
    /\ UNCHANGED harness_vars

NextApp ==
    \/ \E r \in 1..MaxRequests : Analyze(r)
    \/ \E r \in 1..MaxRequests : ConvertCheck(r)
    \/ \E r \in 1..MaxRequests : ConvertSlice(r)
    \/ \E r \in 1..MaxRequests : ConvertRemove(r)
    \/ \E r \in 1..MaxRequests : ConvertMetaLoad(r)
    \/ \E r \in 1..MaxRequests : ConvertMetaOpen(r)
    \/ \E r \in 1..MaxRequests : ConvertMetaDump(r)
    \/ \E r \in 1..MaxRequests : Download(r)
    \/ \E r \in 1..MaxRequests : Preview(r)
    \/ Expire
    \/ Cleanup

SpecApp == InitApp /\ [][NextApp]_vars


\* the /api/convert requests for file_id id that were answered with code
converts(id, code) ==
    {r \in 1..MaxRequests :
       /\ requests[r].route = "convert"
       /\ requests[r].file_id = id
       /\ requests[r].status = code}

\* request r is answered in this step
answers(r) == requests[r].pc # "done" /\ requests'[r].pc = "done"

\* request r arrives in this step
arrives(r) == requests[r].pc = "idle" /\ requests'[r].pc # "idle"

succeeds_at_most_once ==
    requests # <<>> =>
       \A id \in 1..MaxRequests : Cardinality(converts(id, 200)) <= 1

\* a convert that arrives after one has succeeded is turned away
later_convert_refused(r) ==
    /\ arrives(r)
    /\ requests'[r].route = "convert"
    /\ converts(requests'[r].file_id, 200) # {}
    => requests'[r].status \in {400, 404}

\* while <file_id>.gif is there, download and preview send it
gif_is_sent(r) ==
    /\ arrives(r)
    /\ requests'[r].route \in {"download", "preview"}
    /\ exists(<<"gifs", requests'[r].file_id>>)
    => /\ requests'[r].status = 200
       /\ requests'[r].rows = data_folder[<<"gifs", requests'[r].file_id>>].content

\* a convert answered with an error has the temp upload in place
failed_convert_keeps_upload(r) ==
    /\ answers(r)
    /\ requests'[r].route = "convert"
    /\ requests'[r].status = 500
    => <<"temp", requests'[r].file_id>> \in DOMAIN data_folder'

\* C30: for a file_id obtained from a successful /api/analyze, /api/convert
\* succeeds at most once: a successful convert has written <file_id>.gif and
\* removed the temp upload, so every later /api/convert with that file_id
\* returns 404 while /api/download/<file_id> and /api/preview/<file_id>
\* return the GIF until the cleanup removes it; a convert that fails leaves
\* the temp upload in place so it can be retried.
C30_ConvertOnce ==
    /\ []succeeds_at_most_once
    /\ [][\A r \in 1..MaxRequests :
            /\ later_convert_refused(r)
            /\ gif_is_sent(r)
            /\ failed_convert_keeps_upload(r)]_vars

\* what holds of requests that do not overlap: those that arrive after a
\* convert was answered with success
AfterSuccess ==
    [][\A r \in 1..MaxRequests : later_convert_refused(r) /\ gif_is_sent(r)]_vars

\* two converts of one upload both answered with success
converted_twice ==
    /\ requests # <<>>
    /\ \E id \in 1..MaxRequests : Cardinality(converts(id, 200)) = 2

\* a convert of a grid answered 500 with the upload gone: the retry is
\* answered 404
failed_without_upload ==
    /\ requests # <<>>
    /\ \E r \in 1..MaxRequests :
          /\ requests[r].route = "convert"
          /\ requests[r].status = 500
          /\ requests[r].rows > 0
          /\ ~exists(<<"temp", requests[r].file_id>>)

=============================================================================
